---------------------------- MODULE Spec2Model ----------------------------
(***************************************************************************)
(* A model of openquake/risklib/scientific.py: the vulnerability functions *)
(* and their distributions, apply_to and its per-row sampling, the         *)
(* survival functions and scenario_damage.                                 *)
(*                                                                         *)
(* Numbers.  Intensity measure levels, loss ratios and coefficients of     *)
(* variation are integers on a grid (fixed point).  A value interpolated   *)
(* between two control points is kept exactly, as a numerator over the     *)
(* common denominator Den.  A loss produced by a distribution is a record  *)
(* [k, m, c, e]: the closed-form value of the log-normal formula for mean  *)
(* m, cov c and epsilon e (k = "ln"), or the variate drawn by              *)
(* numpy.random.beta for mean m and stddev c at draw number e of the       *)
(* process-wide generator (k = "beta").                                    *)
(***************************************************************************)
EXTENDS Integers, Sequences, FiniteSets, TLC

VARIABLES
    objs,   \* the VulnerabilityFunction objects: ref 0 is the base function,
            \* ref p > 0 the object invocation p of apply_to works on
    inv,    \* the invocations of apply_to: position, inputs, last row computed
    rng,    \* numpy's process-wide random generator: variates drawn so far
    call    \* the last call of a constructor or of a pure function

vars == <<objs, inv, rng, call>>

-----------------------------------------------------------------------------
(* Bounds of the model *)

MaxIml == 2        \* control-point IMLs are drawn from 0..MaxIml
MaxLen == 2        \* longest argument list handed to a constructor
MaxAssets == 2     \* most rows (assets) of a ground-motion or epsilon matrix
NumSeeds == 2      \* number of different epsilon matrices of each shape
MaxDraws == 4      \* variates drawn from the process-wide generator in a run
MaxPoe == 2        \* the poes of a discrete fragility function are 0..MaxPoe
MaxLoss == 2       \* losses of a sample are drawn from -1..MaxLoss
MaxRes == 3        \* largest curve_resolution

-----------------------------------------------------------------------------
(* Values *)

None == [some |-> FALSE, val |-> <<>>]
Some(v) == [some |-> TRUE, val |-> v]

\* what a call that raised returns
Raised(e) == [ok |-> FALSE, err |-> e]
Returned(v) == [ok |-> TRUE, val |-> v]

SeqsUpTo(S, n) == UNION {[1..k -> S] : k \in 0..n}

Range(s) == {s[i] : i \in DOMAIN s}

RECURSIVE SortedSeq(_)
\* sorted(set(...)): the elements of S in ascending order
SortedSeq(S) ==
    IF S = {} THEN <<>>
    ELSE LET m == CHOOSE x \in S : \A y \in S : x <= y
         IN  <<m>> \o SortedSeq(S \ {m})

RECURSIVE Gcd(_, _)
Gcd(a, b) == IF b = 0 THEN a ELSE Gcd(b, a % b)

RECURSIVE LcmUpTo(_)
LcmUpTo(n) == IF n <= 1 THEN 1 ELSE LET l == LcmUpTo(n - 1) IN (l * n) \div Gcd(l, n)

\* the common denominator of every value interpolated on the IML grid: two
\* control points are at most MaxIml apart
Den == LcmUpTo(MaxIml)

-----------------------------------------------------------------------------
(* Exact rationals, for the functions on curves: a float is the fraction    *)
(* [n, d] in lowest terms with d > 0                                        *)

Abs(x) == IF x < 0 THEN -x ELSE x

Rat(n, d) ==
    LET g == Gcd(Abs(n), Abs(d))
        sgn == IF d < 0 THEN -1 ELSE 1
    IN  [n |-> sgn * (n \div g), d |-> sgn * (d \div g)]

Int2Rat(i) == [n |-> i, d |-> 1]
RAdd(x, y) == Rat(x.n * y.d + y.n * x.d, x.d * y.d)
RSub(x, y) == Rat(x.n * y.d - y.n * x.d, x.d * y.d)
RMul(x, y) == Rat(x.n * y.n, x.d * y.d)
RDiv(x, y) == Rat(x.n * y.d, x.d * y.n)
RLess(x, y) == x.n * y.d < y.n * x.d
RLeq(x, y) == x.n * y.d <= y.n * x.d

-----------------------------------------------------------------------------
(* scipy.interpolate.interp1d(xs, ys)(x), linear, for xs[1] <= x <= xs[Len]: *)
(* the result is a numerator over Den.                                       *)

SearchSorted(xs, x) ==
    LET i == CHOOSE j \in 1..Len(xs) : xs[j] >= x /\ \A h \in 1..(j - 1) : xs[h] < x
    IN  IF i < 2 THEN 2 ELSE i

interp1d(xs, ys, x) ==
    LET hi == SearchSorted(xs, x)
        lo == hi - 1
    IN  ys[lo] * Den + ((ys[hi] - ys[lo]) * (x - xs[lo]) * Den) \div (xs[hi] - xs[lo])

-----------------------------------------------------------------------------
(* VulnerabilityFunction: construction *)

\* the assertions without the first one, imls == sorted(set(imls))
CheckWithoutOrder(imls, loss_ratios, covs, distribution) ==
    /\ \A i \in DOMAIN imls : imls[i] >= 0
    /\ (~covs.some \/ Len(covs.val) = Len(imls))
    /\ Len(loss_ratios) = Len(imls)
    /\ \A i \in DOMAIN loss_ratios : loss_ratios[i] >= 0
    /\ (~covs.some \/ \A i \in DOMAIN covs.val : covs.val[i] >= 0)
    /\ distribution \in {"LN", "BT"}

\* _check_vulnerability_data: TRUE when every assertion passes
_check_vulnerability_data(imls, loss_ratios, covs, distribution) ==
    /\ imls = SortedSeq(Range(imls))
    /\ \A i \in DOMAIN imls : imls[i] >= 0
    /\ (~covs.some \/ Len(covs.val) = Len(imls))
    /\ Len(loss_ratios) = Len(imls)
    /\ \A i \in DOMAIN loss_ratios : loss_ratios[i] >= 0
    /\ (~covs.some \/ \A i \in DOMAIN covs.val : covs.val[i] >= 0)
    /\ distribution \in {"LN", "BT"}

\* a distribution object as set_distribution leaves it; asset_idx is the
\* cursor LogNormalDistribution.__init__ sets to 0
NewDistribution(kind, epsilons) ==
    [kind |-> kind, epsilons |-> epsilons, asset_idx |-> 0]

\* set_distribution: a fresh distribution object bound to the epsilons given
set_distribution(self, epsilons) ==
    [self EXCEPT !.distribution =
        NewDistribution(
            IF \E i \in DOMAIN self.covs : self.covs[i] > 0
            THEN self.distribution_name ELSE "DG",
            epsilons)]

\* init(): stddevs and the distribution (the two interpolators are interp1d
\* over the object's own imls, mean_loss_ratios and covs)
init(self) ==
    set_distribution(
        [self EXCEPT !.stddevs =
            [i \in DOMAIN self.covs |-> self.covs[i] * self.mean_loss_ratios[i]]],
        None)

\* the loop of __init__ that rejects a zero loss ratio with a positive cov
ZeroLossWithCov(mean_loss_ratios, covs) ==
    \E i \in DOMAIN mean_loss_ratios :
        i \in DOMAIN covs /\ mean_loss_ratios[i] = 0 /\ covs[i] > 0

\* VulnerabilityFunction.__init__: the object, or the exception raised
VulnerabilityFunction(vf_id, imt, imls, mean_loss_ratios, covs, distribution) ==
    IF ~_check_vulnerability_data(imls, mean_loss_ratios, covs, distribution)
    THEN Raised("AssertionError")
    ELSE LET cv == IF covs.some THEN covs.val ELSE [i \in DOMAIN imls |-> 0]
         IN  IF ZeroLossWithCov(mean_loss_ratios, cv)
             THEN Raised("ValueError")
             ELSE Returned(init(
                    [id |-> vf_id, imt |-> imt, imls |-> imls,
                     mean_loss_ratios |-> mean_loss_ratios, covs |-> cv,
                     distribution_name |-> distribution,
                     stddevs |-> <<>>, distribution |-> None]))

\* the loop that forgets previous_mlr when it skips a point
RECURSIVE ForgetfulKept(_, _, _)
ForgetfulKept(mlrs, i, previous_mlr) ==
    IF i > Len(mlrs) THEN <<>>
    ELSE IF previous_mlr.some /\ previous_mlr.val = mlrs[i]
         THEN ForgetfulKept(mlrs, i + 1, None)
         ELSE <<i>> \o ForgetfulKept(mlrs, i + 1, Some(mlrs[i]))

\* the loop of strictly_increasing from index i on: the indices it appends,
\* skipping every mlr equal to previous_mlr (None before the first one)
RECURSIVE KeptFrom(_, _, _)
KeptFrom(mlrs, i, previous_mlr) ==
    IF i > Len(mlrs) THEN <<>>
    ELSE IF previous_mlr.some /\ previous_mlr.val = mlrs[i]
         THEN KeptFrom(mlrs, i + 1, previous_mlr)
         ELSE <<i>> \o KeptFrom(mlrs, i + 1, Some(mlrs[i]))

\* strictly_increasing: self.__class__ called on the points kept (the
\* memoizing decorator hands the same result to a second call on self)
strictly_increasing(self) ==
    LET kept == KeptFrom(self.mean_loss_ratios, 1, None)
        imls == [k \in DOMAIN kept |-> self.imls[kept[k]]]
        mlrs == [k \in DOMAIN kept |-> self.mean_loss_ratios[kept[k]]]
        covs == [k \in DOMAIN kept |-> self.covs[kept[k]]]
    IN  VulnerabilityFunction(self.id, self.imt, imls, mlrs, Some(covs),
                              self.distribution_name)

-----------------------------------------------------------------------------
(* Distributions: sample.  A call of sample gives [ok, err, val, self, rng]: *)
(* whether it returned, the exception if not, the values, the distribution  *)
(* object after the call and the state of the process-wide generator.       *)

\* a plain number x (a numerator over Den)
Num(x) == [k |-> "num", m |-> x, c |-> 0, e |-> 0]

\* means / sqrt(1 + covs ** 2) * exp(eps * sigma) with
\* sigma = sqrt(log(covs ** 2 + 1)): a zero cov makes sigma 0 and the value
\* the mean itself, a zero mean makes the value 0
LogNormalValue(mean, cov, eps) ==
    IF mean = 0 THEN Num(0)
    ELSE IF cov = 0 THEN Num(mean)
    ELSE [k |-> "ln", m |-> mean, c |-> cov, e |-> eps]

\* the variate numpy.random.beta returns for (alpha, beta) derived from mean
\* and stddev, at draw number `draw` of the process-wide generator
BetaVariate(mean, stddev, draw) ==
    [k |-> "beta", m |-> mean, c |-> stddev, e |-> draw]

NaN == [k |-> "nan", m |-> 0, c |-> 0, e |-> 0]

\* _alpha and _beta for a mean (a numerator over Den, 1 on the grid being
\* the loss ratio 1.0) and a stddev (a cov over Den times an IML, a step of
\* either grid being 0.1):
\*   alpha = ((1 - mean) / stddev ** 2 - 1 / mean) * mean ** 2
\*   beta  = ((1 - mean) / stddev ** 2 - 1 / mean) * (mean - mean ** 2)
\* A zero mean or stddev divides by zero and the parameters are not finite;
\* otherwise both are positive exactly when mean < 1 and
\* stddev ** 2 < mean * (1 - mean).
BetaParameters(mean, stddev) ==
    IF mean = 0 \/ stddev = 0 THEN "nonfinite"
    ELSE IF /\ mean < Den
            /\ stddev * stddev * Den * Den
                 < mean * (Den - mean) * (100 * Den) * (100 * Den)
         THEN "positive"
         ELSE "nonpositive"

DegenerateDistribution_sample(self, means, covs, stddevs, idxs, draws, lib) ==
    [ok |-> TRUE, err |-> "", self |-> self, rng |-> draws,
     val |-> [k \in DOMAIN means |-> Num(means[k])]]

\* a cursor that stays where it is
StuckAssetIdx(asset_idx) == asset_idx

\* a sample that moves the cursor before it looks at the epsilons
SampleCursorFirst(self, means, covs, stddevs, idxs, draws, lib) ==
    [ok |-> FALSE, err |-> "ValueError", rng |-> draws, val |-> <<>>,
     self |-> [self EXCEPT !.asset_idx = @ + 1]]

\* the k-th value sampled takes the k-th epsilon of the row
EpsilonByRank(eps, idxs, k) == eps[k]

\* self.epsilons[self.asset_idx, idxs]: the k-th value sampled takes the
\* epsilon of its own column, idxs[k]
EpsilonFor(eps, idxs, k) == eps[idxs[k]]

\* the cursor after a successful LogNormalDistribution.sample
NextAssetIdx(asset_idx) == asset_idx + 1

LogNormalDistribution_sample(self, means, covs, stddevs, idxs, draws, lib) ==
    IF ~self.epsilons.some
    THEN [ok |-> FALSE, err |-> "ValueError", self |-> self, rng |-> draws,
          val |-> <<>>]
    ELSE IF (self.asset_idx + 1) \notin DOMAIN self.epsilons.val
    THEN [ok |-> FALSE, err |-> "IndexError", self |-> self, rng |-> draws,
          val |-> <<>>]
    ELSE [ok |-> TRUE, err |-> "", rng |-> draws,
          self |-> [self EXCEPT !.asset_idx = NextAssetIdx(@)],
          val |-> [k \in DOMAIN means |->
                     LogNormalValue(means[k], covs[k],
                         EpsilonFor(self.epsilons.val[self.asset_idx + 1], idxs, k))]]

\* what numpy.random.beta does with parameters that are not finite is not
\* in the source: `lib` is its answer, an exception or a nan
NonFiniteAnswers == {"ValueError", "nan"}

\* numpy.random.beta(alpha, beta): it refuses a parameter <= 0 before it
\* draws, and draws one variate per element otherwise
BetaDistribution_sample(self, means, covs, stddevs, idxs, draws, lib) ==
    LET par == [k \in DOMAIN means |-> BetaParameters(means[k], stddevs[k])]
    IN  IF \/ \E k \in DOMAIN par : par[k] = "nonpositive"
           \/ lib = "ValueError" /\ \E k \in DOMAIN par : par[k] = "nonfinite"
        THEN [ok |-> FALSE, err |-> "ValueError", self |-> self, rng |-> draws,
              val |-> <<>>]
        ELSE [ok |-> TRUE, err |-> "", self |-> self, rng |-> draws + Len(means),
              val |-> [k \in DOMAIN means |->
                         IF par[k] = "nonfinite" THEN NaN
                         ELSE BetaVariate(means[k], stddevs[k], draws + k)]]

\* self.distribution.sample(...), dispatched on the class of the object
sample(self, means, covs, stddevs, idxs, draws, lib) ==
    CASE self.kind = "DG" ->
            DegenerateDistribution_sample(self, means, covs, stddevs, idxs, draws, lib)
      [] self.kind = "LN" ->
            LogNormalDistribution_sample(self, means, covs, stddevs, idxs, draws, lib)
      [] self.kind = "BT" ->
            BetaDistribution_sample(self, means, covs, stddevs, idxs, draws, lib)

-----------------------------------------------------------------------------
(* VulnerabilityFunction: copy, _cov_for, _apply *)

__getstate__(self) ==
    <<self.id, self.imt, self.imls, self.mean_loss_ratios, self.covs,
      self.distribution_name>>

__setstate__(state) ==
    init([id |-> state[1], imt |-> state[2], imls |-> state[3],
          mean_loss_ratios |-> state[4], covs |-> state[5],
          distribution_name |-> state[6],
          stddevs |-> <<>>, distribution |-> None])

\* copy.copy(self): a new object rebuilt from the state of the old one
copy(self) == __setstate__(__getstate__(self))

\* numpy.piecewise(imls, [imls > max], [max, lambda x: x])
ClipAbove(self, imls) ==
    LET last == self.imls[Len(self.imls)]
    IN  [j \in DOMAIN imls |-> IF imls[j] > last THEN last ELSE imls[j]]

\* the positions strictly above the first IML
StrictlyInSupport(self, imls_curve) ==
    SortedSeq({j \in DOMAIN imls_curve : imls_curve[j] > self.imls[1]})

\* numpy.where(imls_curve >= self.imls[0]): the positions, ascending
InSupport(self, imls_curve) ==
    SortedSeq({j \in DOMAIN imls_curve : imls_curve[j] >= self.imls[1]})

_cov_for(self, imls) ==
    LET last == self.imls[Len(self.imls)]
        first == self.imls[1]
    IN  [k \in DOMAIN imls |->
            interp1d(self.imls, self.covs,
                     IF imls[k] > last THEN last
                     ELSE IF imls[k] < first THEN first ELSE imls[k])]

\* _apply(imls) with the generator at `draws`: [ok, err, ret, self, rng],
\* self being the function with its distribution as the call leaves it
_apply(self, imls, draws, lib) ==
    LET clipped == ClipAbove(self, imls)
        idxs == InSupport(self, clipped)
        imls_curve == [k \in DOMAIN idxs |-> clipped[idxs[k]]]
        means == [k \in DOMAIN idxs |->
                    interp1d(self.imls, self.mean_loss_ratios, imls_curve[k])]
        covs == _cov_for(self, imls_curve)
        stddevs == [k \in DOMAIN idxs |-> covs[k] * imls_curve[k]]
        r == sample(self.distribution, means, covs, stddevs, idxs, draws, lib)
    IN  [ok |-> r.ok, err |-> r.err, rng |-> r.rng,
         self |-> [self EXCEPT !.distribution = r.self],
         ret |-> IF r.ok
                 THEN [j \in DOMAIN imls |->
                        IF \E k \in DOMAIN idxs : idxs[k] = j
                        THEN r.val[CHOOSE k \in DOMAIN idxs : idxs[k] = j]
                        ELSE Num(0)]
                 ELSE <<>>]

-----------------------------------------------------------------------------
(* VulnerabilityFunctionWithPMF: construction *)

\* _check_vulnerability_data of the PMF function.  Line 409 is
\*   assert all([1.0 >= x >= 0.0 for x in y] for y in probs)
\* whose generator yields one list per row of probs: all() tests the lists,
\* and a list is true exactly when it is not empty.
_check_pmf_data(imls, loss_ratios, probs) ==
    /\ \A i \in DOMAIN imls : imls[i] >= 0
    /\ \A i \in DOMAIN loss_ratios : loss_ratios[i] >= 0
    /\ \A r \in DOMAIN probs : Len(probs[r]) > 0
    /\ Len(probs) = Len(loss_ratios)
    /\ \A r \in DOMAIN probs : Len(probs[r]) = Len(imls)

\* VulnerabilityFunctionWithPMF.__init__ (set_distribution binds a "PM"
\* distribution holding the seed)
VulnerabilityFunctionWithPMF(vf_id, imt, imls, loss_ratios, probs, seed) ==
    IF ~_check_pmf_data(imls, loss_ratios, probs)
    THEN Raised("AssertionError")
    ELSE Returned(
            [id |-> vf_id, imt |-> imt, imls |-> imls,
             loss_ratios |-> loss_ratios, probs |-> probs, seed |-> seed,
             distribution_name |-> "PM",
             distribution |-> [kind |-> "PM", epsilons |-> None, seed |-> seed]])

-----------------------------------------------------------------------------
(* The constructors called on bounded arguments *)

CtorVals == -1..MaxIml              \* imls handed in
CtorLrVals == {-1, 0, 1}            \* mean loss ratios and covs handed in
CtorTags == {"LN", "BT", "PM"}      \* distribution tags handed in
PmfVals == {-1, 0, 1}                  \* imls and loss ratios of a PMF function
ProbVals == {-1, 0, 1, 2}           \* entries of a probability matrix (1 is 1.0)
PmfShapes == {<<1, 1>>, <<1, 2>>, <<2, 1>>, <<2, 2>>, <<1, 0>>}

NoCall == [fn |-> "none", args |-> <<>>, ret |-> Raised("none")]
NoObjs == <<>>
NoInv == <<>>

\* init() builds interp1d(imls, ...) from the arrays; whether scipy accepts
\* fewer than two points is scipy's business, so both outcomes are kept
CtorOutcomes(imls, r) ==
    IF r.ok /\ Len(imls) < 2 THEN {r, Raised("ValueError")} ELSE {r}

\* functions of three points, for the plateaus of strictly_increasing
PlateauImls == {<<0, 1, 2>>}
PlateauMlrs == [1..3 -> {0, 1}]
PlateauCovs == {<<0, 0, 0>>, <<1, 1, 1>>}

NewVulnerabilityFunction ==
    /\ call.fn = "none"
    /\ UNCHANGED <<objs, inv, rng>>
    /\ \E imls \in SeqsUpTo(CtorVals, MaxLen) \cup PlateauImls,
          mlrs \in SeqsUpTo(CtorLrVals, MaxLen) \cup PlateauMlrs,
          covs \in {None} \cup {Some(c) : c \in SeqsUpTo(CtorLrVals, MaxLen)
                                                \cup PlateauCovs},
          tag \in CtorTags :
          \E r \in CtorOutcomes(imls,
                    VulnerabilityFunction("vf", "PGA", imls, mlrs, covs, tag)) :
              call' = [fn |-> "VulnerabilityFunction",
                       args |-> <<imls, mlrs, covs, tag>>, ret |-> r]

NewVulnerabilityFunctionWithPMF ==
    /\ call.fn = "none"
    /\ UNCHANGED <<objs, inv, rng>>
    /\ \E sh \in PmfShapes :
        \E imls \in SeqsUpTo(PmfVals, 2), lrs \in SeqsUpTo(PmfVals, 2),
           probs \in [1..sh[1] -> [1..sh[2] -> ProbVals]] :
          \E r \in CtorOutcomes(imls,
                    VulnerabilityFunctionWithPMF("vf", "PGA", imls, lrs, probs, 42)) :
              call' = [fn |-> "VulnerabilityFunctionWithPMF",
                       args |-> <<imls, lrs, probs>>, ret |-> r]

\* strictly_increasing called on a function just built, and once more on
\* what that call returned; objs lists the receivers so far.  scipy gives
\* the same answer for the same arrays: a receiver of fewer than two points
\* shows that it takes them
CallStrictlyIncreasing ==
    /\ call.fn \in {"VulnerabilityFunction", "strictly_increasing"}
    /\ call.ret.ok
    /\ Len(objs) < 2
    /\ UNCHANGED <<inv, rng>>
    /\ LET self == call.ret.val
           res == strictly_increasing(self)
       IN  /\ objs' = Append(objs, self)
           /\ \E r \in IF Len(self.imls) < 2 \/ ~res.ok THEN {res}
                        ELSE CtorOutcomes(res.val.imls, res) :
                 call' = [fn |-> "strictly_increasing", args |-> <<>>, ret |-> r]

InitCtor == objs = NoObjs /\ inv = NoInv /\ rng = 0 /\ call = NoCall

NextCtor ==
    \/ NewVulnerabilityFunction \/ NewVulnerabilityFunctionWithPMF
    \/ CallStrictlyIncreasing

SpecCtor == InitCtor /\ [][NextCtor]_vars

-----------------------------------------------------------------------------
(* apply_to, called by the callers DOMAIN inv on the base function objs[0] *)

Realizations == {1, 2}                   \* the columns of a matrix
GmVals == 0..(MaxIml + 1)                \* ground-motion values
GmRows == [Realizations -> GmVals]       \* a row of ground_motion_values
FewGmRows == {g \in GmRows : g[1] < g[2] /\ g[1] + g[2] = MaxIml + 1}
LossVals == {0, 1}                       \* mean loss ratios of the base
CovVals == {0, 1}                        \* coefficients of variation of the base

\* with several callers at once the rows are drawn from the smaller set
GmRowsNow == IF Cardinality(DOMAIN inv) > 1 THEN FewGmRows ELSE GmRows

\* an epsilon matrix of m rows: every entry is a different number
EpsMatrix(seed, m) ==
    [i \in 1..m |-> [j \in Realizations |-> 100 * seed + 10 * i + j]]

\* the epsilon matrices caller p hands in: with several callers at once each
\* caller has its own
SeedsOf(p) == IF Cardinality(DOMAIN inv) > 1 THEN {p} ELSE 1..NumSeeds

\* the row counts of the epsilon matrix handed in with n rows of ground
\* motion: with several callers at once the matrices agree
EpsRowsFor(n) == IF Cardinality(DOMAIN inv) > 1 THEN {n} ELSE 0..MaxAssets

\* a caller: where it is in its call, the arguments, the rows mapped so far,
\* the last row read and the row _apply returned for it.  `alone` is not
\* program state: it follows the same invocation run with no other caller,
\* on a distribution and a generator of its own.
Idle == [pc |-> "idle", fn |-> "", n |-> 0, eps |-> <<>>, i |-> 0,
         gm |-> <<>>, out |-> <<>>, err |-> "", lib |-> "",
         alone |-> [dist |-> NewDistribution("DG", None), rng |-> 0, out |-> <<>>]]

\* the answers numpy may give in this call of _apply: there is a choice only
\* when a Beta distribution is handed parameters that are not finite
LibAnswers(f, gm) ==
    IF f.distribution.kind = "BT" /\ _apply(f, gm, 0, "ValueError").ok
                                      # _apply(f, gm, 0, "nan").ok
    THEN NonFiniteAnswers ELSE {"nan"}

\* apply_to without its assertion
RowCountsUnchecked(epsilons, n) == TRUE

\* the assertion of apply_to
RowCountsAgree(epsilons, n) == Len(epsilons) = n

\* apply_to without the copy: the epsilons are bound to the base function
BaseRef(p) == 0

\* vulnerability_function = copy.copy(self): the object the invocation of
\* caller p binds the epsilons to and maps _apply with
WorkingRef(p) == p

Free(heap, r) == [x \in DOMAIN heap \ ({r} \ {0}) |-> heap[x]]

\* apply_to up to the call of numpy_map: the assertion, the copy and
\* set_distribution(epsilons)
ApplyTo(p) ==
    /\ inv[p].pc = "idle"
    /\ UNCHANGED <<rng, call>>
    /\ \E n \in 0..MaxAssets, seed \in SeedsOf(p) : \E m \in EpsRowsFor(n) :
         LET epsilons == EpsMatrix(seed, m)
             bound == set_distribution(copy(objs[0]), Some(epsilons))
             started == [Idle EXCEPT !.fn = "apply_to", !.n = n, !.eps = epsilons,
                                     !.alone = [dist |-> bound.distribution,
                                                rng |-> rng, out |-> <<>>]]
         IN  IF ~RowCountsAgree(epsilons, n)
             THEN /\ inv' = [inv EXCEPT ![p] =
                               [started EXCEPT !.pc = "raised",
                                               !.err = "AssertionError"]]
                  /\ UNCHANGED objs
             ELSE /\ inv' = [inv EXCEPT ![p] = [started EXCEPT !.pc = "rows"]]
                  /\ objs' = (WorkingRef(p) :> bound) @@ objs

\* utils.numpy_map(f, rows) calls f on the rows in their order: the number
\* of rows done after one more
NextRow(i) == i + 1

\* numpy_map: _apply on the next row of ground_motion_values.  The row is
\* drawn when it is read: nothing before that depends on it.
ApplyRow(p) ==
    /\ inv[p].pc = "rows"
    /\ inv[p].i < inv[p].n
    /\ UNCHANGED call
    /\ \E gm \in GmRowsNow : \E lib \in LibAnswers(objs[WorkingRef(p)], gm) :
         LET r == _apply(objs[WorkingRef(p)], gm, rng, lib)
             a == _apply([objs[0] EXCEPT !.distribution = inv[p].alone.dist],
                         gm, inv[p].alone.rng, lib)
             al == [dist |-> a.self.distribution, rng |-> a.rng, out |-> a.ret]
         IN  /\ r.rng <= MaxDraws
             /\ rng' = r.rng
             /\ objs' = [objs EXCEPT ![WorkingRef(p)] = r.self]
             /\ inv' = [inv EXCEPT ![p] =
                          IF r.ok
                          THEN [@ EXCEPT !.i = NextRow(@), !.gm = gm, !.out = r.ret,
                                         !.lib = lib, !.alone = al]
                          ELSE [@ EXCEPT !.pc = "raised", !.gm = gm, !.err = r.err,
                                         !.lib = lib, !.alone = al]]

\* apply_to returns the matrix of the rows; the copy is dropped
ApplyToReturn(p) ==
    /\ inv[p].pc = "rows"
    /\ inv[p].i = inv[p].n
    /\ inv' = [inv EXCEPT ![p] = Idle]
    /\ objs' = Free(objs, WorkingRef(p))
    /\ UNCHANGED <<rng, call>>

\* _apply called on the base function itself, which was given no epsilons
ApplyBase(p) ==
    /\ inv[p].pc = "idle"
    /\ UNCHANGED call
    /\ \E gm \in GmRowsNow : \E lib \in LibAnswers(objs[0], gm) :
         LET r == _apply(objs[0], gm, rng, lib)
         IN  /\ r.rng <= MaxDraws
             /\ rng' = r.rng
             /\ objs' = [objs EXCEPT ![0] = r.self]
             /\ inv' = [inv EXCEPT ![p] =
                          IF r.ok
                          THEN [Idle EXCEPT !.pc = "direct", !.fn = "_apply",
                                            !.gm = gm, !.lib = lib, !.out = r.ret]
                          ELSE [Idle EXCEPT !.pc = "raised", !.fn = "_apply",
                                            !.gm = gm, !.lib = lib, !.err = r.err]]

\* the caller takes the result, or the exception, of its call
CallOver(p) ==
    /\ inv[p].pc \in {"raised", "direct"}
    /\ inv' = [inv EXCEPT ![p] = Idle]
    /\ objs' = IF inv[p].fn = "apply_to" THEN Free(objs, WorkingRef(p)) ELSE objs
    /\ UNCHANGED <<rng, call>>

\* the base functions: every function the constructor accepts with two
\* control points on the grid
BaseFunctions ==
    {r.val : r \in {f \in {VulnerabilityFunction("vf", "PGA", imls, mlrs, covs, tag) :
                             imls \in [1..2 -> 0..MaxIml], mlrs \in [1..2 -> LossVals],
                             covs \in {None} \cup {Some(c) : c \in [1..2 -> CovVals]},
                             tag \in {"LN", "BT"}} : f.ok}}

InitWith(callers) ==
    /\ objs \in {0 :> f : f \in BaseFunctions}
    /\ inv = [p \in callers |-> Idle]
    /\ rng = 0
    /\ call = NoCall

Next ==
    \/ \E p \in DOMAIN inv : ApplyTo(p)
    \/ \E p \in DOMAIN inv : ApplyRow(p)
    \/ \E p \in DOMAIN inv : ApplyToReturn(p)
    \/ \E p \in DOMAIN inv : ApplyBase(p)
    \/ \E p \in DOMAIN inv : CallOver(p)

\* the invocations of apply_to alone
NextConcurrent ==
    \/ \E p \in DOMAIN inv : ApplyTo(p)
    \/ \E p \in DOMAIN inv : ApplyRow(p)
    \/ \E p \in DOMAIN inv : ApplyToReturn(p)
    \/ \E p \in DOMAIN inv : CallOver(p)

\* one caller at a time
Init == InitWith({1})
Spec == Init /\ [][Next]_vars

\* two callers whose invocations interleave row by row
InitConcurrent == InitWith({1, 2})
SpecConcurrent == InitConcurrent /\ [][NextConcurrent]_vars

-----------------------------------------------------------------------------
(* the survival functions and scenario_damage, each called once on inputs   *)
(* of the grid                                                              *)

\* numpy.piecewise(x, [cond], [0, 1]) for a scalar x: the first value where
\* cond holds and the last, the default, elsewhere
piecewise(cond, value, otherwise) == IF cond THEN value ELSE otherwise

\* a step one value early: 0 from loss_ratio == mean on
SurvivalBelowMean(loss_ratio, mean, stddev) ==
    piecewise(loss_ratio >= mean \/ mean = 0, 0, 1)

DegenerateDistribution_survival(loss_ratio, mean, stddev) ==
    piecewise(loss_ratio > mean \/ mean = 0, 0, 1)

\* stats.lognorm.sf(loss_ratio, sigma, scale=mu), not evaluated
LogNormSf(loss_ratio, mean, stddev) ==
    [k |-> "sf", x |-> loss_ratio, m |-> mean, s |-> stddev]

LogNormalDistribution_survival(loss_ratio, mean, stddev) ==
    IF stddev = 0
    THEN piecewise(loss_ratio > mean \/ mean = 0, 0, 1)
    ELSE LogNormSf(loss_ratio, mean, stddev)

\* a probability of exceedance is a numerator over PoeOne: a poe of a
\* discrete function is on the grid 0..MaxPoe, MaxPoe being the poe 1.0, the
\* interpolation divides by Den and the lognormal cdf is known to a quarter
PoeOne == 4 * MaxPoe * Den

\* stats.lognorm.cdf(iml, sigma, scale=mu) to a quarter: 0 up to iml = 0,
\* a half at the median mu = mean ** 2 / sqrt(variance + mean ** 2), less
\* below the median and more above it
LogNormCdf(iml, mean, stddev) ==
    LET variance == stddev * stddev
        lhs == iml * iml * (variance + mean * mean)       \* (iml / mu) ** 2,
        rhs == mean * mean * mean * mean                  \* as lhs / rhs
    IN  IF iml <= 0 THEN 0
        ELSE IF lhs < rhs THEN PoeOne \div 4
        ELSE IF lhs = rhs THEN PoeOne \div 2
        ELSE 3 * (PoeOne \div 4)

FragilityFunctionContinuous(limit_state, mean, stddev) ==
    [kind |-> "continuous", limit_state |-> limit_state,
     mean |-> mean, stddev |-> stddev]

FragilityFunctionDiscrete(limit_state, imls, poes, no_damage_limit) ==
    [kind |-> "discrete", limit_state |-> limit_state, imls |-> imls,
     poes |-> poes, no_damage_limit |-> no_damage_limit]

FragilityFunctionContinuous_call(self, iml) ==
    Returned(LogNormCdf(iml, self.mean, self.stddev))

\* self.interp(x): interp1d refuses an x outside [imls[0], imls[-1]]
FragilityFunctionDiscrete_interp(self, x) ==
    IF x < self.imls[1] \/ x > self.imls[Len(self.imls)]
    THEN Raised("ValueError")
    ELSE Returned(4 * interp1d(self.imls, self.poes, x))

FragilityFunctionDiscrete_call(self, iml) ==
    LET highest_iml == self.imls[Len(self.imls)]
    IN  IF self.no_damage_limit.some /\ iml < self.no_damage_limit.val
        THEN Returned(0)
        ELSE FragilityFunctionDiscrete_interp(
                 self, IF iml > highest_iml THEN highest_iml ELSE iml)

\* ff(gmv)
FragilityFunction_call(ff, gmv) ==
    IF ff.kind = "discrete" THEN FragilityFunctionDiscrete_call(ff, gmv)
    ELSE FragilityFunctionContinuous_call(ff, gmv)

\* utils.pairwise(values): every value with the next one
pairwise(values) ==
    [i \in 1..(Len(values) - 1) |-> <<values[i], values[i + 1]>>]

\* the differences taken the other way round: the next value minus the value
NextMinusValue(values) ==
    [i \in 1..(Len(values) - 1) |-> values[i + 1] - values[i]]

pairwise_diff(values) ==
    LET pairs == pairwise(values)
    IN  [i \in DOMAIN pairs |-> pairs[i][1] - pairs[i][2]]

scenario_damage(fragility_functions, gmv) ==
    LET poes == [i \in DOMAIN fragility_functions |->
                   FragilityFunction_call(fragility_functions[i], gmv)]
    IN  IF \E i \in DOMAIN poes : ~poes[i].ok
        THEN Raised(poes[CHOOSE i \in DOMAIN poes :
                            ~poes[i].ok /\ \A j \in 1..(i - 1) : poes[j].ok].err)
        ELSE Returned(pairwise_diff(<<PoeOne>> \o [i \in DOMAIN poes |-> poes[i].val]
                                    \o <<0>>))

SurvivalVals == -1..MaxIml               \* loss ratios and means
StddevVals == {0, 1}

\* the fragility functions: the continuous ones with the parameters of a
\* lognormal, mean > 0 and stddev > 0, and the discrete ones over two IMLs
FragilityFunctions ==
    {FragilityFunctionContinuous("LS", mean, stddev) :
        mean \in 1..MaxIml, stddev \in 1..2}
    \cup
    {FragilityFunctionDiscrete("LS", imls, poes, ndl) :
        imls \in {x \in [1..2 -> 0..MaxIml] : x[1] < x[2]},
        poes \in {<<0, MaxPoe>>, <<1, MaxPoe>>, <<1, 1>>},
        ndl \in {None, Some(1)}}

CallDegenerateSurvival ==
    /\ call.fn = "none"
    /\ UNCHANGED <<objs, inv, rng>>
    /\ \E loss_ratio \in SurvivalVals, mean \in SurvivalVals, stddev \in StddevVals :
         call' = [fn |-> "DegenerateDistribution.survival",
                  args |-> <<loss_ratio, mean, stddev>>,
                  ret |-> Returned(DegenerateDistribution_survival(
                                       loss_ratio, mean, stddev))]

CallLogNormalSurvival ==
    /\ call.fn = "none"
    /\ UNCHANGED <<objs, inv, rng>>
    /\ \E loss_ratio \in SurvivalVals, mean \in SurvivalVals, stddev \in StddevVals :
         call' = [fn |-> "LogNormalDistribution.survival",
                  args |-> <<loss_ratio, mean, stddev>>,
                  ret |-> Returned(LogNormalDistribution_survival(
                                       loss_ratio, mean, stddev))]

CallScenarioDamage ==
    /\ call.fn = "none"
    /\ UNCHANGED <<objs, inv, rng>>
    /\ \E ffs \in SeqsUpTo(FragilityFunctions, MaxLen), gmv \in GmVals :
         call' = [fn |-> "scenario_damage", args |-> <<ffs, gmv>>,
                  ret |-> scenario_damage(ffs, gmv)]

NextPure == CallDegenerateSurvival \/ CallLogNormalSurvival \/ CallScenarioDamage

SpecPure == InitCtor /\ [][NextPure]_vars

-----------------------------------------------------------------------------
(* DiscreteDistribution.sample.  Probabilities are numerators over ProbOne. *)
(* random is numpy's process-wide generator (scipy re-exports it), the one  *)
(* rv_discrete(...).rvs() draws from: random.seed(seed) puts it at the      *)
(* start of the numbers that follow the seed, and `stream` are these        *)
(* numbers, stream[k + 1] being the one drawn at position k; the number v   *)
(* stands for the uniform variate (2 * v + 1) / (2 * ProbOne).              *)

ProbOne == 4

\* rv_discrete(values=(r, pk)).rvs() at the uniform variate v: the first
\* index, from 0, at which the cumulated probability reaches the variate
RECURSIVE Cumulated(_, _)
Cumulated(pk, r) == IF r < 0 THEN 0 ELSE Cumulated(pk, r - 1) + pk[r + 1]

rvs(pk, v) ==
    CHOOSE r \in 0..(Len(pk) - 1) :
        /\ 2 * Cumulated(pk, r) >= 2 * v + 1
        /\ \A q \in 0..(r - 1) : 2 * Cumulated(pk, q) < 2 * v + 1

\* the generator seeded once, before the loop: column i draws at position i
PositionSeededOnce(i) == i

\* random.seed(self.seed) inside the loop: the generator is at position 0
\* when column i draws
PositionAtDraw(i) == 0

\* sample(loss_ratios, probs): probs is the list of the columns probs[:, i];
\* val is the list returned and rng the generator's position afterwards
DiscreteDistribution_sample(self, loss_ratios, probs, draws, stream) ==
    [val |-> [i \in DOMAIN probs |->
                loss_ratios[rvs(probs[i], stream[PositionAtDraw(i - 1) + 1]) + 1]],
     rng |-> IF probs = <<>> THEN draws ELSE PositionAtDraw(Len(probs) - 1) + 1]

PmfColumns == {pk \in [1..2 -> 0..ProbOne] : pk[1] + pk[2] = ProbOne}
PmfLossRatios == <<1, 2>>
PmfDistribution == [kind |-> "PM", epsilons |-> None, seed |-> 42]
Streams == [1..MaxLen -> 0..(ProbOne - 1)]

\* the first call on a distribution object; inv keeps what each call returned
CallDiscreteSample ==
    /\ call.fn = "none"
    /\ UNCHANGED objs
    /\ \E probs \in SeqsUpTo(PmfColumns, MaxLen), stream \in Streams :
         LET r == DiscreteDistribution_sample(PmfDistribution, PmfLossRatios,
                                              probs, rng, stream)
         IN  /\ call' = [fn |-> "DiscreteDistribution.sample",
                         args |-> <<PmfLossRatios, probs, stream>>,
                         ret |-> Returned(r.val)]
             /\ rng' = r.rng
             /\ inv' = <<r.val>>

\* the same call once more, the generator being where the first call left it
RepeatDiscreteSample ==
    /\ call.fn = "DiscreteDistribution.sample"
    /\ Len(inv) = 1
    /\ UNCHANGED objs
    /\ LET r == DiscreteDistribution_sample(PmfDistribution, call.args[1],
                                            call.args[2], rng, call.args[3])
       IN  /\ call' = [call EXCEPT !.ret = Returned(r.val)]
           /\ rng' = r.rng
           /\ inv' = Append(inv, r.val)

NextDiscrete == CallDiscreteSample \/ RepeatDiscreteSample

SpecDiscrete == InitCtor /\ [][NextDiscrete]_vars

-----------------------------------------------------------------------------
(* event_based and the functions on loss curves, each called once *)

\* numpy.linspace(0, stop, num): num values start + i * step with
\* step = stop / (num - 1); the one value 0 when num is 1
linspace(stop, num) ==
    [i \in 1..num |-> IF num = 1 THEN Int2Rat(0) ELSE Rat(stop * (i - 1), num - 1)]

\* numpy.max(loss_values)
Max(values) == CHOOSE x \in Range(values) : \A y \in Range(values) : y <= x

\* the values that are as large as the reference loss are counted too
CountAtLeast(loss_values, loss) ==
    Cardinality({i \in DOMAIN loss_values : RLeq(loss, Int2Rat(loss_values[i]))})

\* the values below the reference loss are counted
CountBelow(loss_values, loss) ==
    Cardinality({i \in DOMAIN loss_values : RLess(Int2Rat(loss_values[i]), loss)})

\* (loss_values > loss).sum()
CountGreater(loss_values, loss) ==
    Cardinality({i \in DOMAIN loss_values : RLess(loss, Int2Rat(loss_values[i]))})

\* 1. - numpy.exp(-x), not evaluated: x is kept
OneMinusExpOfMinus(x) == [k |-> "1-exp(-x)", x |-> x]

\* build_poes(counts, nses) = 1. - numpy.exp(- counts / nses)
build_poes(counts, nses) ==
    [i \in DOMAIN counts |-> OneMinusExpOfMinus(RDiv(Int2Rat(counts[i]), nses))]

event_based(loss_values, ses_ratio, curve_resolution) ==
    IF loss_values = <<>>
    THEN Raised("ValueError")                  \* numpy.max of an empty array
    ELSE LET reference_losses == linspace(Max(loss_values), curve_resolution)
             counts == [i \in DOMAIN reference_losses |->
                          CountGreater(loss_values, reference_losses[i])]
         IN  Returned(<<reference_losses,
                        build_poes(counts, RDiv(Int2Rat(1), ses_ratio))>>)

LossValues == SeqsUpTo(-1..MaxLoss, MaxLen) \cup {<<0, 10, 20, 30, 40>>}
SesRatios == {Rat(1, 2), Rat(1, 1), Rat(2, 1)}
Resolutions == (1..MaxRes) \cup {5}

CallEventBased ==
    /\ call.fn = "none"
    /\ UNCHANGED <<objs, inv, rng>>
    /\ \E loss_values \in LossValues, ses_ratio \in SesRatios,
          curve_resolution \in Resolutions :
         call' = [fn |-> "event_based",
                  args |-> <<loss_values, ses_ratio, curve_resolution>>,
                  ret |-> event_based(loss_values, ses_ratio, curve_resolution)]

\* seq[a:b] of Python, a and b counted from the end when negative
PySlice(seq, a, b) ==
    LET n == Len(seq)
        norm(i) == IF i < 0 THEN (IF i + n < 0 THEN 0 ELSE i + n)
                   ELSE (IF i > n THEN n ELSE i)
        lo == norm(a)
        hi == norm(b)
    IN  IF hi <= lo THEN <<>> ELSE [i \in 1..(hi - lo) |-> seq[lo + i]]

\* the list as it is
NotReversed(seq) == seq

\* poes[::-1]
Reversed(seq) == [i \in DOMAIN seq |-> seq[Len(seq) + 1 - i]]

RECURSIVE bisect_right_from(_, _, _, _)
\* bisect.bisect_right(a, x, lo, hi): the loop, on 0-based lo and hi
bisect_right_from(a, x, lo, hi) ==
    IF lo < hi
    THEN LET mid == (lo + hi) \div 2
         IN  IF RLess(x, a[mid + 1]) THEN bisect_right_from(a, x, lo, mid)
             ELSE bisect_right_from(a, x, mid + 1, hi)
    ELSE lo

bisect_right(a, x) == bisect_right_from(a, x, 0, Len(a))

\* a test that is never true
NeverBelow(poes, probability) == FALSE

\* probability < poes[-1]
BelowMinPoe(poes, probability) == RLess(probability, poes[Len(poes)])

\* the smallest of the loss ratios whose PoE is the probability
MinLossAtPoe(loss_ratios, poes, probability) ==
    LET matches == {loss_ratios[i] : i \in {j \in DOMAIN poes : poes[j] = probability}}
    IN  CHOOSE x \in matches : \A y \in matches : RLeq(x, y)

\* the loss ratio of the first point of the curve
LossOfFirstPoint(loss_ratios, poes, probability) == loss_ratios[1]

\* max([loss for i, loss in enumerate(loss_ratios) if probability == poes[i]])
MaxLossAtPoe(loss_ratios, poes, probability) ==
    LET matches == {loss_ratios[i] : i \in {j \in DOMAIN poes : poes[j] = probability}}
    IN  CHOOSE x \in matches : \A y \in matches : RLeq(y, x)

conditional_loss_ratio(loss_ratios, poes, probability) ==
    LET rpoes == Reversed(poes)
        interval_index == bisect_right(rpoes, probability)
        xs == IF interval_index = 1 THEN PySlice(poes, -2, Len(poes))
              ELSE PySlice(poes, -interval_index - 1, -interval_index + 1)
        ys == IF interval_index = 1 THEN PySlice(loss_ratios, -2, Len(loss_ratios))
              ELSE PySlice(loss_ratios, -interval_index - 1, -interval_index + 1)
    IN  IF poes = <<>> THEN Raised("IndexError")
        ELSE IF RLess(poes[1], probability) THEN Returned(Int2Rat(0))
        ELSE IF BelowMinPoe(poes, probability)
             THEN Returned(loss_ratios[Len(loss_ratios)])
        ELSE IF \E i \in DOMAIN poes : poes[i] = probability
             THEN Returned(MaxLossAtPoe(loss_ratios, poes, probability))
        ELSE IF interval_index = Len(poes) THEN Returned(NaN)
        ELSE IF Len(xs) # 2 \/ Len(ys) # 2
             THEN Raised("ValueError")         \* x1, x2 = a slice not of two
        ELSE Returned(RAdd(RMul(RDiv(RSub(ys[2], ys[1]), RSub(xs[2], xs[1])),
                                RSub(probability, xs[1])),
                           ys[1]))

\* a sequence of integers as floats
Rats(seq) == [i \in DOMAIN seq |-> Int2Rat(seq[i])]

\* the loss curves: up to MaxLen + 1 points, the loss ratios not decreasing
\* and the PoEs, over MaxPoe, not increasing; and the curve of the examples
Curves ==
    {<<Rats(l), [i \in DOMAIN q |-> Rat(q[i], MaxPoe)]>> :
        l \in {x \in SeqsUpTo(0..MaxLoss, MaxLen + 1) :
                 \A i \in 1..(Len(x) - 1) : x[i] <= x[i + 1]},
        q \in {x \in SeqsUpTo(0..MaxPoe, MaxLen + 1) :
                 \A i \in 1..(Len(x) - 1) : x[i] >= x[i + 1]}}
    \cup {<<(<<Rat(0, 1), Rat(1, 2), Rat(1, 1)>>),
            (<<Rat(9, 10), Rat(1, 2), Rat(1, 10)>>)>>}

\* the probabilities: the PoEs of the grid, the values half way between
\* them and beyond them, and those of the examples
Probabilities ==
    {Rat(k, 2 * MaxPoe) : k \in (-1)..(2 * MaxPoe + 1)}
    \cup {Rat(19, 20), Rat(1, 20), Rat(9, 10)}

CallConditionalLossRatio ==
    /\ call.fn = "none"
    /\ UNCHANGED <<objs, inv, rng>>
    /\ \E curve \in {c \in Curves : Len(c[1]) = Len(c[2]) /\ Len(c[1]) > 0},
          probability \in Probabilities :
         call' = [fn |-> "conditional_loss_ratio",
                  args |-> <<curve[1], curve[2], probability>>,
                  ret |-> conditional_loss_ratio(curve[1], curve[2], probability)]

\* the transform without the limit
InsuredWithoutLimit(losses, deductible, insured_limit) ==
    [i \in DOMAIN losses |->
        IF losses[i] < deductible THEN 0 ELSE losses[i] - deductible]

\* numpy.piecewise(losses, [losses < deductible, losses > insured_limit],
\*                 [0, insured_limit - deductible, lambda x: x - deductible]):
\* piecewise assigns the values condition by condition, so where both
\* conditions hold the second one stands; the function is for the rest
insured_losses(losses, deductible, insured_limit) ==
    [i \in DOMAIN losses |->
        IF losses[i] > insured_limit THEN insured_limit - deductible
        ELSE IF losses[i] < deductible THEN 0
        ELSE losses[i] - deductible]

InsuredVals == (0..(MaxLoss + 1)) \cup {5, 100}

CallInsuredLosses ==
    /\ call.fn = "none"
    /\ UNCHANGED <<objs, inv, rng>>
    /\ \E losses \in SeqsUpTo(0..(MaxLoss + 1), MaxLen) \cup {<<3, 20, 101>>},
          deductible \in InsuredVals, insured_limit \in InsuredVals :
         call' = [fn |-> "insured_losses",
                  args |-> <<losses, deductible, insured_limit>>,
                  ret |-> Returned(insured_losses(losses, deductible, insured_limit))]

\* A weight just off a fraction: q + e * 1E-13, with q and e rationals and e
\* small, so that two such numbers compare by q first and by e next
Fine(q, e) == [q |-> q, e |-> e]
Exactly(q) == Fine(q, Int2Rat(0))
FAdd(x, y) == Fine(RAdd(x.q, y.q), RAdd(x.e, y.e))
FSub(x, y) == Fine(RSub(x.q, y.q), RSub(x.e, y.e))
FScale(x, r) == Fine(RMul(x.q, r), RMul(x.e, r))
FLess(x, y) == RLess(x.q, y.q) \/ (x.q = y.q /\ RLess(x.e, y.e))
FAbs(x) == IF FLess(x, Exactly(Int2Rat(0))) THEN FSub(Exactly(Int2Rat(0)), x) ELSE x

\* sum(weights), from the left
RECURSIVE FSum(_)
FSum(seq) ==
    IF seq = <<>> THEN Exactly(Int2Rat(0))
    ELSE FAdd(FSum(SubSeq(seq, 1, Len(seq) - 1)), seq[Len(seq)])

\* 1E-12, ten times 1E-13
Tolerance == Fine(Int2Rat(0), Int2Rat(10))

\* the check left out
WeightsUnchecked(weights) == TRUE

\* abs(sum(weights) - 1.) < 1E-12
WeightsNormalized(weights) ==
    FLess(FAbs(FSub(FSum(weights), Exactly(Int2Rat(1)))), Tolerance)

\* sum(value * weight for value, weight in zip(values, weights))
RECURSIVE WeightedSum(_, _)
WeightedSum(values, weights) ==
    IF values = <<>> \/ weights = <<>> THEN Exactly(Int2Rat(0))
    ELSE LET n == IF Len(values) < Len(weights) THEN Len(values) ELSE Len(weights)
         IN  FAdd(WeightedSum(SubSeq(values, 1, n - 1), SubSeq(weights, 1, n - 1)),
                  FScale(weights[n], Int2Rat(values[n])))

\* a / b, left as a quotient unless b is exactly one
Quot(a, b) == IF b = Exactly(Int2Rat(1)) THEN a ELSE [k |-> "/", num |-> a, den |-> b]

\* numpy.average(values, axis=0, weights=weights): for every column the
\* weighted sum over the rows, divided by the sum of the weights
average(values, weights) ==
    [j \in DOMAIN values[1] |->
        Quot(WeightedSum([i \in DOMAIN values |-> values[i][j]], weights),
             FSum(weights))]

\* values is a record: the items and whether each item is an array (an
\* ndarray, a list or a tuple), which is what isinstance on values[0] finds;
\* an item that is a number v is written <<v>>;
\* weights is None or Some list, and an empty list is as good as None
mean_curve(values, weights) ==
    LET supplied == weights.some /\ weights.val # <<>>
        n == Len(values.items)
        ws == IF supplied THEN weights.val
              ELSE [i \in 1..n |-> Exactly(Rat(1, n))]
    IN  IF supplied /\ ~WeightsNormalized(weights.val) THEN Raised("AssertionError")
        ELSE IF ~supplied /\ n = 0 THEN Raised("ZeroDivisionError")
        ELSE IF values.arrays THEN Returned(average(values.items, ws))
        ELSE Returned(WeightedSum([i \in 1..n |-> values.items[i][1]], ws))

MeanScalars == {0, 1, 3}
MeanRows == [1..2 -> {0, 1}]
MeanValues ==
    {[arrays |-> FALSE, items |-> v] :
        v \in SeqsUpTo({<<x>> : x \in MeanScalars}, MaxLen)}
    \cup {[arrays |-> TRUE, items |-> v] : v \in SeqsUpTo(MeanRows, MaxLen) \ {<<>>}}
WeightVals ==
    {Exactly(Int2Rat(0)), Exactly(Rat(1, 2)), Exactly(Rat(3, 10)), Exactly(Rat(7, 10)),
     Exactly(Rat(3, 5)), Exactly(Int2Rat(1)),
     Fine(Rat(1, 2), Int2Rat(5)), Fine(Rat(1, 2), Int2Rat(4)), Fine(Rat(1, 2), Int2Rat(-5))}

\* the callers pass one weight for each value, or no weights
CallMeanCurve ==
    /\ call.fn = "none"
    /\ UNCHANGED <<objs, inv, rng>>
    /\ \E values \in MeanValues :
         \E weights \in {None} \cup {Some(w) : w \in [1..Len(values.items) -> WeightVals]} :
           call' = [fn |-> "mean_curve", args |-> <<values, weights>>,
                    ret |-> mean_curve(values, weights)]

\* the orders that sort poes ascending: numpy.argsort returns one of them,
\* and which one, where values are equal, is up to the sorting algorithm
argsort(poes) ==
    {idxs \in [DOMAIN poes -> DOMAIN poes] :
        /\ \A i, j \in DOMAIN poes : i # j => idxs[i] # idxs[j]
        /\ \A i, j \in DOMAIN poes :
             i < j => RLeq(poes[idxs[i]], poes[idxs[j]])}

\* numpy.sort of one column
sort(poes) ==
    LET idxs == CHOOSE idxs \in argsort(poes) : TRUE
    IN  [i \in DOMAIN poes |-> poes[idxs[i]]]

\* a.clip(lo, hi) is minimum(maximum(a, lo), hi), also for lo > hi
clip(a, lo, hi) ==
    LET up == IF RLess(a, lo) THEN lo ELSE a
    IN  IF RLess(hi, up) THEN hi ELSE up

\* numpy.floor
floor(x) == x.n \div x.d

\* seq[i] of Python: from zero, and from the end for a negative i
PyIndex(seq, i) == IF i < 0 THEN seq[Len(seq) + i + 1] ELSE seq[i + 1]

\* the position taken as the median's for every quantile
MedianPosition(p) == Rat(1, 2)

\* m = 0.4 + p * 0.2
PlottingPosition(p) == RAdd(Rat(2, 5), RMul(p, Rat(1, 5)))

\* numpy.cumsum
RECURSIVE cumsum(_)
cumsum(seq) ==
    IF seq = <<>> THEN <<>>
    ELSE LET head == cumsum(SubSeq(seq, 1, Len(seq) - 1))
         IN  Append(head, IF head = <<>> THEN seq[Len(seq)]
                          ELSE RAdd(head[Len(head)], seq[Len(seq)]))

\* the value of the first point for every x
InterpFirst(x, xp, fp) == fp[1]

\* numpy.interp(x, xp, fp) for increasing xp: fp[0] up to xp[0], fp[-1] from
\* xp[-1] on, and on the line between the two points around x in between
interp(x, xp, fp) ==
    LET n == Len(xp)
    IN  IF RLeq(x, xp[1]) THEN fp[1]
        ELSE IF RLeq(xp[n], x) THEN fp[n]
        ELSE LET j == CHOOSE j \in 1..(n - 1) : RLeq(xp[j], x) /\ RLess(x, xp[j + 1])
             IN  RAdd(fp[j], RMul(RSub(x, xp[j]),
                                  RDiv(RSub(fp[j + 1], fp[j]), RSub(xp[j + 1], xp[j]))))

\* column j of the curves, numpy.array(curves).reshape(len(curves), -1)[:, j]
Column(curves, j) == [i \in DOMAIN curves |-> curves[i][j]]

\* curves is a non-empty list of curves of one length; weights is None or
\* Some list; sorted_poe_idxs[j] is what numpy.argsort returns for column j
quantile_curve(curves, quantile, weights, sorted_poe_idxs) ==
    IF ~weights.some
    THEN LET p == quantile
             m == PlottingPosition(p)
             n == Len(curves)
             aleph == RAdd(RMul(Int2Rat(n), p), m)
             k == floor(clip(aleph, Int2Rat(1), Int2Rat(n - 1)))
             gamma == clip(RSub(aleph, Int2Rat(k)), Int2Rat(0), Int2Rat(1))
             data == [j \in DOMAIN curves[1] |-> sort(Column(curves, j))]
         IN  Returned([j \in DOMAIN curves[1] |->
                 RAdd(RMul(RSub(Int2Rat(1), gamma), PyIndex(data[j], k - 1)),
                      RMul(gamma, PyIndex(data[j], k)))])
    ELSE IF Len(weights.val) # Len(curves) THEN Raised("AssertionError")
    ELSE Returned([j \in DOMAIN curves[1] |->
             LET poes == Column(curves, j)
                 idxs == sorted_poe_idxs[j]
                 sorted_weights == [i \in DOMAIN idxs |-> weights.val[idxs[i]]]
                 sorted_poes == [i \in DOMAIN idxs |-> poes[idxs[i]]]
                 cum_weights == cumsum(sorted_weights)
             IN  interp(quantile, cum_weights, sorted_poes)])

MaxCurves == 3
QuantileRows ==
    {<<Rat(1, 10), Rat(1, 5)>>, <<Rat(3, 10), Rat(2, 5)>>, <<Rat(1, 10), Rat(3, 10)>>,
     <<Rat(3, 25), Rat(33, 100)>>, <<Rat(3, 10), Rat(1, 10)>>}
\* one curve for each realization, no two of them the same (two of them may
\* still agree in one coordinate)
QuantileCurves ==
    {c \in SeqsUpTo(QuantileRows, MaxCurves) \ {<<>>} :
        \A i, j \in DOMAIN c : i # j => c[i] # c[j]}
Quantiles == {Rat(0, 1), Rat(1, 5), Rat(1, 2), Rat(4, 5), Rat(1, 1)}
QuantileWeights == {Rat(3, 10), Rat(7, 10)}

CallQuantileCurve ==
    /\ call.fn = "none"
    /\ UNCHANGED <<objs, inv, rng>>
    /\ \E curves \in QuantileCurves, quantile \in Quantiles :
         \E weights \in {None} \cup
                        {Some(w) : w \in SeqsUpTo(QuantileWeights, MaxCurves)} :
           \E sorted_poe_idxs \in
                 IF weights.some /\ Len(weights.val) = Len(curves)
                 THEN {<<first, second>> : first \in argsort(Column(curves, 1)),
                                          second \in argsort(Column(curves, 2))}
                 ELSE {<<>>} :
             call' = [fn |-> "quantile_curve",
                      args |-> <<curves, quantile, weights, sorted_poe_idxs>>,
                      ret |-> quantile_curve(curves, quantile, weights, sorted_poe_idxs)]

\* numpy.linspace(x, y, num) for num > 1: num points from x to y, both included
linspace_between(x, y, num) ==
    [i \in 1..num |->
        RAdd(x, RDiv(RMul(RSub(y, x), Int2Rat(i - 1)), Int2Rat(num - 1)))]

\* numpy.concatenate of a list of arrays
RECURSIVE concatenate(_)
concatenate(arrays) ==
    IF arrays = <<>> THEN <<>>
    ELSE concatenate(SubSeq(arrays, 1, Len(arrays) - 1)) \o arrays[Len(arrays)]

\* fine_graining(points, steps) for at least two points: steps points from
\* every point to the next one (the next one left out), and the last point
fine_graining(points, steps) ==
    IF steps < 2 THEN points
    ELSE LET pairs == pairwise(points)
             ls == concatenate([k \in DOMAIN pairs |->
                      PySlice(linspace_between(pairs[k][1], pairs[k][2], steps + 1),
                              0, -1)])
         IN  ls \o <<points[Len(points)]>>

RMin(values) == CHOOSE x \in Range(values) : \A y \in Range(values) : RLeq(x, y)
RMax(values) == CHOOSE x \in Range(values) : \A y \in Range(values) : RLeq(y, x)

\* mean_loss_ratios_with_steps on the mean loss ratios of self
mean_loss_ratios_with_steps(mean_loss_ratios, steps) ==
    LET with_zero == IF RLess(Int2Rat(0), RMin(mean_loss_ratios))
                     THEN <<Int2Rat(0)>> \o mean_loss_ratios
                     ELSE mean_loss_ratios
        loss_ratios == IF RLess(RMax(with_zero), Int2Rat(1))
                       THEN with_zero \o <<Int2Rat(1)>>
                       ELSE with_zero
    IN  fine_graining(loss_ratios, steps)

\* mean loss ratios the constructor accepts: none of them negative
MaxSteps == 3
MeanLossRatios ==
    SeqsUpTo({Rat(0, 1), Rat(1, 2), Rat(1, 1), Rat(3, 2)}, MaxLen) \ {<<>>}

CallMeanLossRatiosWithSteps ==
    /\ call.fn = "none"
    /\ UNCHANGED <<objs, inv, rng>>
    /\ \E mean_loss_ratios \in MeanLossRatios, steps \in 0..MaxSteps :
         call' = [fn |-> "mean_loss_ratios_with_steps",
                  args |-> <<mean_loss_ratios, steps>>,
                  ret |-> Returned(mean_loss_ratios_with_steps(mean_loss_ratios, steps))]

\* counts[list(count_dict)] += count_dict.values(): the rows of the keys,
\* each with the vector of its key added; the rows picked by an empty dict
\* are an array of shape (0, C), which the empty list () cannot be added to
AddedTo(counts, count_dict, curve_resolution) ==
    IF DOMAIN count_dict = {} /\ curve_resolution # 0 THEN Raised("ValueError")
    ELSE IF \E a \in DOMAIN count_dict : a \notin DOMAIN counts
    THEN Raised("IndexError")
    ELSE Returned([a \in DOMAIN counts |->
                     IF a \in DOMAIN count_dict
                     THEN [c \in DOMAIN counts[a] |-> counts[a][c] + count_dict[a][c]]
                     ELSE counts[a]])

\* CurveBuilder.get_counts(N, count_dicts): the matrix, row a at index a
\* from 0, or the exception of the first dict that cannot be added
RECURSIVE get_counts(_, _, _)
get_counts(self, N, count_dicts) ==
    IF count_dicts = <<>>
    THEN Returned([a \in 0..(N - 1) |-> [c \in 1..self.curve_resolution |-> 0]])
    ELSE LET n == Len(count_dicts)
             counts == get_counts(self, N, SubSeq(count_dicts, 1, n - 1))
         IN  IF ~counts.ok THEN counts
             ELSE AddedTo(counts.val, count_dicts[n], self.curve_resolution)

\* the builders: CurveBuilder('structural', loss_ratios, True) with one and
\* with two loss ratios
CurveBuilders == {[curve_resolution |-> C] : C \in {1, 2}}

\* the maps asset_idx -> [C indices] over the assets 0 and 1
CountDicts(C) ==
    UNION {[keys -> [1..C -> {0, 1}]] : keys \in SUBSET {0, 1}}

CallGetCounts ==
    /\ call.fn = "none"
    /\ UNCHANGED <<objs, inv, rng>>
    /\ \E self \in CurveBuilders, N \in {2, 3} :
         \E count_dicts \in SeqsUpTo(CountDicts(self.curve_resolution), MaxLen) :
            call' = [fn |-> "get_counts",
                     args |-> <<self, N, count_dicts>>,
                     ret |-> get_counts(self, N, count_dicts)]

NextCurves ==
    \/ CallEventBased \/ CallConditionalLossRatio \/ CallInsuredLosses
    \/ CallMeanCurve \/ CallQuantileCurve \/ CallMeanLossRatiosWithSteps
    \/ CallGetCounts

SpecCurves == InitCtor /\ [][NextCurves]_vars

-----------------------------------------------------------------------------
(* classical: the loss ratio curve of a vulnerability function under a      *)
(* hazard curve.  A float is an exact rational; a survival value scipy      *)
(* computes is kept as the call that gives it, a product and a sum of such  *)
(* values as the terms they are made of                                     *)

\* a float whose value is known
Float(x) == [k |-> "float", x |-> x]

\* an entry of numpy.empty that nothing was written to: whatever the memory
\* held
Uninitialized == [k |-> "uninitialized"]

\* the mean imls without the point after the last control point
MeanImlsWithoutLast(self) ==
    LET imls == Rats(self.imls)
        pairs == pairwise(imls)
        half == Rat(1, 2)
        first == RSub(imls[1], RMul(RSub(imls[2], imls[1]), half))
    IN  <<IF RLess(first, Int2Rat(0)) THEN Int2Rat(0) ELSE first>>
        \o [i \in DOMAIN pairs |-> RMul(RAdd(pairs[i][1], pairs[i][2]), half)]

\* mean_imls for at least two control points: max(0, imls[0] - half the
\* first interval), the mean of every pair, imls[-1] + half the last interval
mean_imls(self) ==
    LET imls == Rats(self.imls)
        n == Len(imls)
        pairs == pairwise(imls)
        half == Rat(1, 2)
        first == RSub(imls[1], RMul(RSub(imls[2], imls[1]), half))
    IN  <<IF RLess(first, Int2Rat(0)) THEN Int2Rat(0) ELSE first>>
        \o [i \in DOMAIN pairs |-> RMul(RAdd(pairs[i][1], pairs[i][2]), half)]
        \o <<RAdd(imls[n], RMul(RSub(imls[n], imls[n - 1]), half))>>

\* self.distribution.survival(loss_ratio, mean, stddev): the step of the
\* degenerate distribution and of a lognormal one without spread, the call
\* of scipy otherwise
survival(distribution, loss_ratio, mean, stddev) ==
    LET step == piecewise(RLess(Int2Rat(mean), loss_ratio) \/ mean = 0,
                          Float(Int2Rat(0)), Float(Int2Rat(1)))
    IN  IF distribution.kind = "DG" THEN step
        ELSE IF distribution.kind = "LN"
        THEN IF stddev = 0 THEN step
             ELSE [k |-> "lognorm.sf", x |-> loss_ratio, m |-> mean, s |-> stddev]
        ELSE [k |-> "beta.sf", x |-> loss_ratio, m |-> mean, s |-> stddev]

\* loss_ratio_exceedance_matrix: the loss ratios and one row for each of
\* them, one column for each pair of zip(mean_loss_ratios, stddevs)
loss_ratio_exceedance_matrix(self, steps) ==
    LET loss_ratios == mean_loss_ratios_with_steps(Rats(self.mean_loss_ratios), steps)
        cols == IF Len(self.stddevs) < Len(self.mean_loss_ratios)
                THEN DOMAIN self.stddevs ELSE DOMAIN self.mean_loss_ratios
    IN  <<loss_ratios,
          [row \in DOMAIN loss_ratios |->
             [col \in cols |->
                survival(self.distribution, loss_ratios[row],
                         self.mean_loss_ratios[col], self.stddevs[col])]]>>

\* numpy.putmask(imls, imls < min_val, min_val) and the same above max_val
Saturated(imls, min_val, max_val) ==
    [i \in DOMAIN imls |->
        IF RLess(imls[i], min_val) THEN min_val
        ELSE IF RLess(max_val, imls[i]) THEN max_val ELSE imls[i]]

\* interpolate.interp1d(xs, ys)(x) on floats, for xs[0] <= x <= xs[-1]
interp1d_floats(xs, ys, x) ==
    LET n == Len(xs)
        j == IF RLeq(xs[n], x) THEN n - 1
             ELSE CHOOSE j \in 1..(n - 1) : RLeq(xs[j], x) /\ RLess(x, xs[j + 1])
    IN  RAdd(ys[j], RMul(RSub(x, xs[j]),
                         RDiv(RSub(ys[j + 1], ys[j]), RSub(xs[j + 1], xs[j]))))

\* pairwise_diff on floats
pairwise_diff_floats(values) ==
    LET pairs == pairwise(values)
    IN  [i \in DOMAIN pairs |-> RSub(pairs[i][1], pairs[i][2])]

\* lrem[:, idx] * po for one entry
Times(l, po) ==
    IF l.k = "float" THEN Float(RMul(l.x, po))
    ELSE [k |-> "times", l |-> l, po |-> po]

RECURSIVE FloatSum(_)
FloatSum(row) ==
    IF row = <<>> THEN Int2Rat(0)
    ELSE RAdd(FloatSum(SubSeq(row, 1, Len(row) - 1)), row[Len(row)].x)

\* one row of lrem_po.sum(axis=1)
RowSum(row) ==
    IF \A col \in DOMAIN row : row[col].k = "float" THEN Float(FloatSum(row))
    ELSE [k |-> "sum", terms |-> row]

\* classical(vulnerability_function, hazard_imls, hazard_poes, steps), vf
\* being what strictly_increasing gave: <<loss_ratios, poes>>
classical(vf, hazard_imls, hazard_poes, steps) ==
    IF ~vf.ok THEN vf
    ELSE IF Len(vf.val.imls) < 2 THEN Raised("IndexError")
    ELSE LET imls == mean_imls(vf.val)
             matrix == loss_ratio_exceedance_matrix(vf.val, steps)
             loss_ratios == matrix[1]
             lrem == matrix[2]
             min_val == hazard_imls[1]
             max_val == hazard_imls[Len(hazard_imls)]
             saturated == Saturated(imls, min_val, max_val)
             poes == [i \in DOMAIN saturated |->
                        interp1d_floats(hazard_imls, hazard_poes, saturated[i])]
             pos == pairwise_diff_floats(poes)
             columns == Len(vf.val.imls)
             lrem_po == [row \in DOMAIN lrem |->
                           [col \in 1..columns |->
                              IF col <= Len(pos) THEN Times(lrem[row][col], pos[col])
                              ELSE Uninitialized]]
         IN  IF Len(pos) > columns THEN Raised("IndexError")
             ELSE Returned(<<loss_ratios,
                             [row \in DOMAIN lrem_po |-> RowSum(lrem_po[row])]>>)

\* the functions classical is called on
ClassicalImls == {<<0, 1>>, <<1, 2>>, <<0, 1, 2>>, <<1, 2, 4>>}
ClassicalFunctions ==
    {r.val : r \in {f \in {VulnerabilityFunction("vf", "PGA", imls, mlrs, covs, tag) :
                             imls \in ClassicalImls,
                             mlrs \in SeqsUpTo(0..2, 3),
                             covs \in {None, Some(<<1, 1>>), Some(<<0, 1, 1>>)},
                             tag \in {"LN", "BT"}} : f.ok}}

\* hazard curves: increasing imls, poes that do not increase
HazardCurves ==
    {[imls |-> Rats(<<0, 4>>), poes |-> <<Rat(1, 1), Rat(0, 1)>>],
     [imls |-> Rats(<<1, 2, 3>>), poes |-> <<Rat(1, 1), Rat(1, 2), Rat(1, 4)>>],
     [imls |-> Rats(<<1, 3>>), poes |-> <<Rat(1, 2), Rat(1, 4)>>]}

CallLossRatioExceedanceMatrix ==
    /\ call.fn = "none"
    /\ UNCHANGED <<objs, inv, rng>>
    /\ \E self \in ClassicalFunctions, steps \in 0..MaxSteps :
         call' = [fn |-> "loss_ratio_exceedance_matrix",
                  args |-> <<self, steps>>,
                  ret |-> Returned(loss_ratio_exceedance_matrix(self, steps))]

CallClassical ==
    /\ call.fn = "none"
    /\ UNCHANGED <<objs, inv, rng>>
    /\ \E self \in ClassicalFunctions, hazard \in HazardCurves, steps \in 0..MaxSteps :
         LET res == strictly_increasing(self)
         IN  \E vf \in IF ~res.ok THEN {res} ELSE CtorOutcomes(res.val.imls, res) :
                call' = [fn |-> "classical",
                         args |-> <<self, hazard.imls, hazard.poes, steps, vf>>,
                         ret |-> classical(vf, hazard.imls, hazard.poes, steps)]

NextClassical == CallLossRatioExceedanceMatrix \/ CallClassical

SpecClassical == InitCtor /\ [][NextClassical]_vars

-----------------------------------------------------------------------------
(* C1: constructing a VulnerabilityFunction fails whenever imls is unsorted *)
(* or holds a duplicate, some iml, mean loss ratio or cov is negative, the  *)
(* lengths differ, the tag is neither LN nor BT, or a zero mean loss ratio  *)
(* has a positive cov; every function constructed has strictly ascending    *)
(* imls and imls, mean_loss_ratios and covs of one length, covs being zeros *)
(* when none were given.                                                    *)

BadVfArgs(imls, mlrs, covs, tag) ==
    \/ \E i, j \in DOMAIN imls : i < j /\ imls[i] >= imls[j]
    \/ \E i \in DOMAIN imls : imls[i] < 0
    \/ \E i \in DOMAIN mlrs : mlrs[i] < 0
    \/ covs.some /\ \E i \in DOMAIN covs.val : covs.val[i] < 0
    \/ Len(mlrs) # Len(imls)
    \/ covs.some /\ Len(covs.val) # Len(imls)
    \/ tag \notin {"LN", "BT"}
    \/ covs.some /\ \E i \in DOMAIN mlrs :
            i \in DOMAIN covs.val /\ mlrs[i] = 0 /\ covs.val[i] > 0

C1_ConstructionValidates ==
    call.fn = "VulnerabilityFunction" =>
        LET a == call.args
        IN  /\ BadVfArgs(a[1], a[2], a[3], a[4]) => ~call.ret.ok
            /\ call.ret.ok =>
                LET f == call.ret.val
                IN  /\ \A i \in 1..(Len(f.imls) - 1) : f.imls[i] < f.imls[i + 1]
                    /\ Len(f.imls) = Len(f.mean_loss_ratios)
                    /\ Len(f.covs) = Len(f.imls)
                    /\ f.imls = a[1] /\ f.mean_loss_ratios = a[2]
                    /\ (~a[3].some => \A i \in DOMAIN f.covs : f.covs[i] = 0)

\* a construction that was refused for each of the reasons, and one that went through
C1_Witness ==
    /\ call.fn = "VulnerabilityFunction"
    /\ call.ret.ok
    /\ Len(call.ret.val.imls) = 2
    /\ ~call.args[3].some

C1_WitnessRefused ==
    /\ call.fn = "VulnerabilityFunction"
    /\ ~call.ret.ok
    /\ call.args[1] = <<1, 1>>

(* C2: constructing a VulnerabilityFunctionWithPMF fails whenever an entry  *)
(* of the probability matrix is negative or greater than 1.                 *)
C2_PmfProbabilitiesChecked ==
    call.fn = "VulnerabilityFunctionWithPMF" =>
        ((\E r \in DOMAIN call.args[3] : \E c \in DOMAIN call.args[3][r] :
              call.args[3][r][c] < 0 \/ call.args[3][r][c] > 1)
          => ~call.ret.ok)

-----------------------------------------------------------------------------
(* C3: apply_to fails when the epsilon matrix and the ground-motion matrix  *)
(* have a different number of rows; it fails before any row is sampled and  *)
(* leaves every object, the base function and its distribution among them,  *)
(* and the generator as they were.                                          *)
C3_RowCountMismatchFails ==
    [][\A p \in DOMAIN inv :
         (/\ inv[p].pc = "idle"
          /\ inv'[p].fn = "apply_to"
          /\ Len(inv'[p].eps) # inv'[p].n)
         => /\ inv'[p].pc = "raised"
            /\ inv'[p].err = "AssertionError"
            /\ inv'[p].i = 0 /\ inv'[p].gm = <<>> /\ inv'[p].out = <<>>
            /\ objs' = objs
            /\ rng' = rng]_vars

C3_Witness ==
    \E p \in DOMAIN inv :
        /\ inv[p].fn = "apply_to" /\ inv[p].pc = "raised"
        /\ inv[p].err = "AssertionError"
        /\ Len(inv[p].eps) # inv[p].n

\* a function some of whose covs is positive
HasCov(f) == \E i \in DOMAIN f.covs : f.covs[i] > 0

\* caller p has called _apply on the base function and the call is over
SampledBase(p) == inv[p].fn = "_apply" /\ inv[p].pc \in {"direct", "raised"}

(* C4, as claimed: sampling through a VulnerabilityFunction with some       *)
(* cov > 0 that has been given no epsilons fails with the initialization    *)
(* error and leaves the cursor where it was.                                *)
C4_AnyTagFails ==
    \A p \in DOMAIN inv :
        (SampledBase(p) /\ HasCov(objs[0]))
        => /\ inv[p].pc = "raised" /\ inv[p].err = "ValueError"
           /\ objs[0].distribution.asset_idx = 0

(* C4, amended: sample on a LogNormalDistribution whose epsilons are not    *)
(* set fails with the initialization error and does not advance the cursor; *)
(* this is the outcome of sampling through a VulnerabilityFunction with tag *)
(* 'LN' and some cov > 0 that has been given no epsilons.                   *)
C4_UnsetLogNormalFails ==
    \A p \in DOMAIN inv :
        (SampledBase(p) /\ HasCov(objs[0]) /\ objs[0].distribution_name = "LN")
        => /\ objs[0].distribution.kind = "LN"
           /\ ~objs[0].distribution.epsilons.some
           /\ inv[p].pc = "raised" /\ inv[p].err = "ValueError"
           /\ inv[p].out = <<>>
           /\ objs[0].distribution.asset_idx = 0

C4_Witness ==
    \E p \in DOMAIN inv :
        /\ SampledBase(p) /\ inv[p].pc = "raised"
        /\ objs[0].distribution.kind = "LN"

(* C5: apply_to never changes the function it is called on: in every step   *)
(* the base function keeps its parameters and its own distribution, with    *)
(* the epsilons unset and the cursor at 0, and the distribution bound to    *)
(* the epsilons of a call is the one of the copy made inside that call.     *)
C5_BaseUntouched ==
    [][/\ objs'[0] = objs[0]
       /\ ~objs'[0].distribution.epsilons.some
       /\ objs'[0].distribution.asset_idx = 0
       /\ \A p \in DOMAIN inv' :
            (inv'[p].fn = "apply_to" /\ inv'[p].pc = "rows")
            => /\ p \in DOMAIN objs' /\ p # 0
               /\ objs'[p].distribution.epsilons = Some(inv'[p].eps)]_vars

C5_Witness ==
    \E p \in DOMAIN inv :
        /\ inv[p].fn = "apply_to" /\ inv[p].pc = "rows"
        /\ inv[p].i = 2
        /\ objs[0].distribution.kind = "LN"
        /\ objs[p].distribution.asset_idx = 2

\* caller p is inside apply_to and _apply has returned a row
RowDone(p) == inv[p].fn = "apply_to" /\ inv[p].pc = "rows" /\ inv[p].i > 0

RowOfFirstCall(f, gm, epsrow, lib) ==
    _apply(set_distribution(copy(f), Some(<<epsrow>>)), gm, 0, lib).ret

LossAt(f, x, eps, drawn) ==
    LET mean == interp1d(f.imls, f.mean_loss_ratios, x)
        cov == interp1d(f.imls, f.covs, x)
    IN  CASE f.distribution.kind = "DG" -> Num(mean)
          [] f.distribution.kind = "LN" -> LogNormalValue(mean, cov, eps)
          [] f.distribution.kind = "BT" ->
                IF BetaParameters(mean, cov * x) = "nonfinite" THEN NaN
                ELSE BetaVariate(mean, cov * x, drawn)

(* C8: in a row of apply_to every IML strictly below the smallest IML of    *)
(* the function gives loss 0, every IML above the largest gives the loss of *)
(* the largest IML for the same epsilon, an IML inside the support is used  *)
(* as it is, and the row returned has the length and the order of the row   *)
(* handed in.                                                               *)
C8_Clipping ==
    \A p \in DOMAIN inv :
        RowDone(p) =>
            LET f == objs[0]
                last == f.imls[Len(f.imls)]
                gm == inv[p].gm
                out == inv[p].out
            IN  /\ DOMAIN out = DOMAIN gm
                /\ \A j \in DOMAIN gm :
                     LET e == inv[p].eps[inv[p].i][j]
                     IN  /\ gm[j] < f.imls[1] => out[j] = Num(0)
                         /\ gm[j] > last => out[j] = LossAt(f, last, e, out[j].e)
                         /\ (f.imls[1] <= gm[j] /\ gm[j] <= last)
                              => out[j] = LossAt(f, gm[j], e, out[j].e)

C8_Witness ==
    \E p \in DOMAIN inv :
        /\ RowDone(p)
        /\ inv[p].gm[1] < objs[0].imls[1]
        /\ inv[p].gm[2] > objs[0].imls[2]
        /\ inv[p].out[2].k = "ln"

\* the call was to survival of a distribution without spread: Degenerate, or
\* LogNormal with stddev == 0
StepSurvival ==
    \/ call.fn = "DegenerateDistribution.survival"
    \/ call.fn = "LogNormalDistribution.survival" /\ call.args[3] = 0

(* C9, as claimed: survival of a distribution without spread is the step    *)
(* function: for mean != 0 it is 1 when loss_ratio <= mean and 0 when       *)
(* loss_ratio > mean; for mean == 0 it is 0 for every loss_ratio > 0 and 1  *)
(* otherwise.                                                               *)
C9_StepWithOneAtZero ==
    StepSurvival =>
        LET loss_ratio == call.args[1]
            mean == call.args[2]
        IN  call.ret = Returned(IF mean # 0
                                THEN IF loss_ratio <= mean THEN 1 ELSE 0
                                ELSE IF loss_ratio > 0 THEN 0 ELSE 1)

(* C9, amended: for mean != 0 survival is 1 when loss_ratio <= mean and 0   *)
(* when loss_ratio > mean; for mean == 0 it is 0 for every loss_ratio, 0    *)
(* included; LogNormalDistribution.survival with stddev == 0 returns the    *)
(* same values.                                                             *)
C9_StepWithZeroMeanZero ==
    StepSurvival =>
        LET loss_ratio == call.args[1]
            mean == call.args[2]
        IN  call.ret = Returned(IF mean # 0
                                THEN IF loss_ratio <= mean THEN 1 ELSE 0
                                ELSE 0)

\* survival of a zero mean at loss ratio 0, through the log-normal class
C9_Witness ==
    /\ call.fn = "LogNormalDistribution.survival"
    /\ call.args = <<0, 0, 0>>
    /\ call.ret = Returned(0)

RECURSIVE SumSeq(_)
SumSeq(s) == IF s = <<>> THEN 0 ELSE s[1] + SumSeq(Tail(s))

(* C10: for every list of M fragility functions and every ground-motion     *)
(* value scenario_damage returns M + 1 fractions and their sum is 1.        *)
C10_FractionsSumToOne ==
    call.fn = "scenario_damage" =>
        /\ call.ret.ok
        /\ Len(call.ret.val) = Len(call.args[1]) + 1
        /\ SumSeq(call.ret.val) = PoeOne

\* what scenario_damage does return, it returns as C10 says
FractionsSumToOneWhenReturned ==
    (call.fn = "scenario_damage" /\ call.ret.ok) =>
        /\ Len(call.ret.val) = Len(call.args[1]) + 1
        /\ SumSeq(call.ret.val) = PoeOne

\* scenario_damage returned the fractions of two functions, not all of one value
ScenarioDamageReturned ==
    /\ call.fn = "scenario_damage" /\ call.ret.ok
    /\ Len(call.args[1]) = 2
    /\ \E i, j \in DOMAIN call.ret.val : call.ret.val[i] # call.ret.val[j]


\* the poes scenario_damage got from the fragility functions of the last call
PoesOfCall ==
    [i \in DOMAIN call.args[1] |->
        FragilityFunction_call(call.args[1][i], call.args[2]).val]

(* C11, as claimed: for every list of fragility functions and every         *)
(* ground-motion value every fraction scenario_damage returns is >= 0.      *)
C11_FractionsNonNegative ==
    (call.fn = "scenario_damage" /\ call.ret.ok) =>
        \A i \in DOMAIN call.ret.val : call.ret.val[i] >= 0

(* C11, amended: every fraction scenario_damage returns is >= 0 when the    *)
(* poes of the functions at the ground-motion value do not increase along   *)
(* the list; where a poe is greater than the one before it, the fraction    *)
(* between the two is negative.                                             *)
C11_NonNegativeWhenOrdered ==
    (call.fn = "scenario_damage" /\ call.ret.ok) =>
        LET poes == PoesOfCall
            M == Len(poes)
        IN  /\ Len(call.ret.val) = M + 1
            /\ (\A i \in 1..(M - 1) : poes[i] >= poes[i + 1])
                 => \A i \in DOMAIN call.ret.val : call.ret.val[i] >= 0
            /\ \A i \in 1..(M - 1) :
                 poes[i] < poes[i + 1] => call.ret.val[i + 1] < 0

\* two functions whose poes at the ground-motion value go down, neither 0 nor 1
C11_Witness ==
    /\ call.fn = "scenario_damage" /\ call.ret.ok
    /\ Len(call.args[1]) = 2
    /\ PoeOne > PoesOfCall[1] /\ PoesOfCall[1] > PoesOfCall[2] /\ PoesOfCall[2] > 0
    /\ \A i \in DOMAIN call.ret.val : call.ret.val[i] > 0

(* C12: event_based returns curve_resolution reference losses evenly spaced *)
(* from 0 to max(loss_values), and the PoE of each is                       *)
(* 1 - exp(-count * ses_ratio), count being the number of loss_values       *)
(* strictly greater than the reference loss; for [0,10,20,30,40] and        *)
(* resolution 5 the counts are 4, 3, 2, 1, 0.                               *)
C12_EventBasedCurve ==
    (call.fn = "event_based" /\ call.ret.ok) =>
        LET loss_values == call.args[1]
            ses_ratio == call.args[2]
            R == call.args[3]
            losses == call.ret.val[1]
            poes == call.ret.val[2]
            top == Int2Rat(Max(loss_values))
            count(i) == Cardinality({j \in DOMAIN loss_values :
                           loss_values[j] * losses[i].d > losses[i].n})
        IN  /\ Len(losses) = R /\ Len(poes) = R
            /\ losses[1] = Int2Rat(0)
            /\ R > 1 => losses[R] = top
            /\ \A i \in 1..(R - 1) :
                 RSub(losses[i + 1], losses[i]) = RDiv(top, Int2Rat(R - 1))
            /\ \A i \in 1..R :
                 poes[i] = OneMinusExpOfMinus(RMul(Int2Rat(count(i)), ses_ratio))
            /\ (loss_values = <<0, 10, 20, 30, 40>> /\ R = 5)
                 => /\ losses = [i \in 1..5 |-> Int2Rat(10 * (i - 1))]
                    /\ \A i \in 1..5 : poes[i].x = RMul(Int2Rat(5 - i), ses_ratio)

C12_Witness ==
    /\ call.fn = "event_based" /\ call.ret.ok
    /\ call.args[1] = <<0, 10, 20, 30, 40>> /\ call.args[3] = 5
    /\ call.args[2] = Rat(1, 2)
    /\ call.ret.val[2][1].x = Int2Rat(2)

\* the order of two PoEs 1 - exp(-x): that of their x
PoeLeq(p, q) == RLeq(p.x, q.x)

(* C13: for non-negative loss_values, ses_ratio > 0 and curve_resolution    *)
(* R >= 1 the curve event_based returns has R losses and R PoEs, the losses *)
(* non-decreasing and the PoEs non-increasing.                              *)
C13_WellFormedCurve ==
    (/\ call.fn = "event_based" /\ call.ret.ok
     /\ \A j \in DOMAIN call.args[1] : call.args[1][j] >= 0) =>
        LET R == call.args[3]
            losses == call.ret.val[1]
            poes == call.ret.val[2]
        IN  /\ Len(losses) = R /\ Len(poes) = R
            /\ \A i \in 1..(R - 1) : RLeq(losses[i], losses[i + 1])
            /\ \A i \in 1..(R - 1) : PoeLeq(poes[i + 1], poes[i])

\* a curve of three points whose losses rise and whose PoEs fall
C13_Witness ==
    /\ call.fn = "event_based" /\ call.ret.ok
    /\ call.args[3] = 3
    /\ \A j \in DOMAIN call.args[1] : call.args[1][j] >= 0
    /\ RLess(call.ret.val[1][1], call.ret.val[1][2])
    /\ RLess(call.ret.val[2][3].x, call.ret.val[2][2].x)
    /\ RLess(call.ret.val[2][2].x, call.ret.val[2][1].x)

(* C14: conditional_loss_ratio returns 0.0 whenever probability is greater  *)
(* than poes[0] and, otherwise, loss_ratios[-1] whenever probability is     *)
(* smaller than poes[-1], before any exact match or interpolation; for loss *)
(* ratios [0,0.5,1.0] and poes [0.9,0.5,0.1], 0.95 gives 0.0 and 0.05 gives *)
(* 1.0.                                                                     *)
C14_OutsideTheCurve ==
    call.fn = "conditional_loss_ratio" =>
        LET loss_ratios == call.args[1]
            poes == call.args[2]
            probability == call.args[3]
        IN  /\ RLess(poes[1], probability) => call.ret = Returned(Int2Rat(0))
            /\ (~RLess(poes[1], probability) /\ RLess(probability, poes[Len(poes)]))
                 => call.ret = Returned(loss_ratios[Len(loss_ratios)])
            /\ (poes = <<Rat(9, 10), Rat(1, 2), Rat(1, 10)>>
                /\ loss_ratios = <<Rat(0, 1), Rat(1, 2), Rat(1, 1)>>)
                 => /\ probability = Rat(19, 20) => call.ret = Returned(Rat(0, 1))
                    /\ probability = Rat(1, 20) => call.ret = Returned(Rat(1, 1))

\* the example curve asked for a probability under its smallest PoE
C14_Witness ==
    /\ call.fn = "conditional_loss_ratio"
    /\ call.args[2] = <<Rat(9, 10), Rat(1, 2), Rat(1, 10)>>
    /\ call.args[3] = Rat(1, 20)
    /\ call.ret = Returned(Rat(1, 1))

(* C15: when probability is within [poes[-1], poes[0]] and equals one or    *)
(* more PoEs of the curve, conditional_loss_ratio returns the largest loss  *)
(* ratio among the points with that PoE, the one of the last point of the   *)
(* plateau; for loss ratios [0,0.5,1.0], poes [0.9,0.5,0.1] and 0.9 it      *)
(* returns 0.0.                                                             *)
C15_ExactMatch ==
    call.fn = "conditional_loss_ratio" =>
        LET loss_ratios == call.args[1]
            poes == call.args[2]
            probability == call.args[3]
            at == {i \in DOMAIN poes : poes[i] = probability}
        IN  /\ (/\ RLeq(poes[Len(poes)], probability)
                /\ RLeq(probability, poes[1])
                /\ at # {})
                 => /\ call.ret.ok
                    /\ \E i \in at : call.ret.val = loss_ratios[i]
                    /\ \A i \in at : RLeq(loss_ratios[i], call.ret.val)
                    /\ call.ret.val =
                         loss_ratios[CHOOSE i \in at : \A j \in at : j <= i]
            /\ (poes = <<Rat(9, 10), Rat(1, 2), Rat(1, 10)>>
                /\ loss_ratios = <<Rat(0, 1), Rat(1, 2), Rat(1, 1)>>
                /\ probability = Rat(9, 10))
                 => call.ret = Returned(Rat(0, 1))

\* a plateau of two points with different loss ratios was asked for its PoE
C15_Witness ==
    /\ call.fn = "conditional_loss_ratio" /\ call.ret.ok
    /\ \E i, j \in DOMAIN call.args[2] :
         /\ i < j
         /\ call.args[2][i] = call.args[3] /\ call.args[2][j] = call.args[3]
         /\ RLess(call.args[1][i], call.args[1][j])
         /\ call.ret.val = call.args[1][j]

WeightedMean(values, ws) ==
    IF values.arrays
    THEN [j \in 1..2 |->
            Quot(WeightedSum([i \in DOMAIN values.items |-> values.items[i][j]], ws),
                 FSum(ws))]
    ELSE WeightedSum([i \in DOMAIN values.items |-> values.items[i][1]], ws)

(* C17: mean_curve returns the weighted arithmetic mean of the values along *)
(* the leading axis; without weights every one of the n values has the      *)
(* weight 1/n; with weights the call fails unless |sum(weights) - 1| <      *)
(* 1e-12 and succeeds otherwise.                                            *)
C17_MeanCurve ==
    call.fn = "mean_curve" =>
        LET values == call.args[1]
            weights == call.args[2]
            n == Len(values.items)
        IN  /\ (~weights.some /\ n > 0) =>
                 /\ call.ret.ok
                 /\ call.ret.val =
                      WeightedMean(values, [i \in 1..n |-> Exactly(Rat(1, n))])
            /\ weights.some =>
                 /\ call.ret.ok <=>
                      FSum(weights.val) \in
                        {Fine(Int2Rat(1), Rat(e, 1)) : e \in -9..9}
                 /\ call.ret.ok => call.ret.val = WeightedMean(values, weights.val)

C17_Witness ==
    /\ call.fn = "mean_curve"
    /\ call.args[2].some
    /\ FSum(call.args[2].val) = Fine(Rat(6, 5), Int2Rat(0))
    /\ ~call.ret.ok

C17_WitnessMean ==
    /\ call.fn = "mean_curve"
    /\ call.args[1].items = <<(<<0>>), <<1>>>>
    /\ call.args[2] = Some(<<Exactly(Rat(3, 10)), Exactly(Rat(7, 10))>>)
    /\ call.ret = Returned(Exactly(Rat(7, 10)))

\* the values of column j of the curves of the call, smallest first
Ascending(j) == sort(Column(call.args[1], j))

\* k and gamma of the claim for the unweighted call
RankOfCall ==
    LET n == Len(call.args[1])
        aleph == RAdd(RMul(Int2Rat(n), call.args[2]),
                      RAdd(Rat(2, 5), RMul(Rat(1, 5), call.args[2])))
        bounded == IF RLess(aleph, Int2Rat(1)) THEN Int2Rat(1)
                   ELSE IF RLess(Int2Rat(n - 1), aleph) THEN Int2Rat(n - 1) ELSE aleph
    IN  bounded.n \div bounded.d
WeightOfCall ==
    LET n == Len(call.args[1])
        aleph == RAdd(RMul(Int2Rat(n), call.args[2]),
                      RAdd(Rat(2, 5), RMul(Rat(1, 5), call.args[2])))
        rest == RSub(aleph, Int2Rat(RankOfCall))
    IN  IF RLess(rest, Int2Rat(0)) THEN Int2Rat(0)
        ELSE IF RLess(Int2Rat(1), rest) THEN Int2Rat(1) ELSE rest
UnweightedCall ==
    call.fn = "quantile_curve" /\ ~call.args[3].some /\ Len(call.args[1]) >= 2

(* C18 as stated: without weights, quantile_curve returns for each          *)
(* coordinate (1-gamma)*sorted[k-1] + gamma*sorted[k], sorted being the     *)
(* coordinate's values in ascending order counted from 1.                   *)
C18_CountedFromOne ==
    (UnweightedCall /\ RankOfCall >= 2) =>
        /\ call.ret.ok
        /\ \A j \in 1..2 :
             call.ret.val[j] =
               RAdd(RMul(RSub(Int2Rat(1), WeightOfCall), Ascending(j)[RankOfCall - 1]),
                    RMul(WeightOfCall, Ascending(j)[RankOfCall]))

(* C18: without weights, quantile_curve of n >= 2 curves at quantile p      *)
(* returns for each coordinate (1-gamma) times the k-th smallest value plus *)
(* gamma times the (k+1)-th smallest, with m = 0.4 + 0.2*p, aleph = n*p+m,  *)
(* k = floor(clip(aleph, 1, n-1)), gamma = clip(aleph - k, 0, 1); for the   *)
(* rows [[0.1,0.2],[0.3,0.4]] and p = 0.5 this is [0.2, 0.3].               *)
C18_CountedFromZero ==
    UnweightedCall =>
        /\ call.ret.ok
        /\ \A j \in 1..2 :
             call.ret.val[j] =
               RAdd(RMul(RSub(Int2Rat(1), WeightOfCall), Ascending(j)[RankOfCall]),
                    RMul(WeightOfCall, Ascending(j)[RankOfCall + 1]))
        /\ (call.args[1] = <<(<<Rat(1, 10), Rat(1, 5)>>), <<Rat(3, 10), Rat(2, 5)>>>>
              /\ call.args[2] = Rat(1, 2))
             => call.ret.val = <<Rat(1, 5), Rat(3, 10)>>

C18_Witness ==
    /\ UnweightedCall
    /\ call.args[1] = <<(<<Rat(1, 10), Rat(1, 5)>>), <<Rat(3, 10), Rat(2, 5)>>>>
    /\ call.args[2] = Rat(1, 2)
    /\ call.ret = Returned(<<Rat(1, 5), Rat(3, 10)>>)

WeightedCall ==
    /\ call.fn = "quantile_curve"
    /\ call.args[3].some
    /\ Len(call.args[3].val) = Len(call.args[1])

\* value lies on the line through (c1, v1) and (c2, v2) at q
OnTheLine(value, q, c1, v1, c2, v2) ==
    RMul(value, RSub(c2, c1)) = RAdd(RMul(v1, RSub(c2, q)), RMul(v2, RSub(q, c1)))

(* C19: with weights, quantile_curve sorts the values of each coordinate    *)
(* ascending, carries the weights along, takes the cumulative weights       *)
(* c_1..c_n in that order and returns the piecewise-linear interpolation of *)
(* the sorted values against c at the quantile: the smallest value when     *)
(* quantile <= c_1 and the largest when quantile >= c_n; with weights       *)
(* (0.3, 0.7) and quantile 0.2 it is the smallest value of each coordinate. *)
(* (The sorted order is the one numpy.argsort returned for the coordinate.) *)
C19_WeightedQuantile ==
    WeightedCall =>
        LET curves == call.args[1]
            q == call.args[2]
            weights == call.args[3].val
            n == Len(curves)
        IN  /\ call.ret.ok
            /\ \A j \in 1..2 :
                 LET idxs == call.args[4][j]
                     v == [i \in 1..n |-> curves[idxs[i]][j]]
                     c == cumsum([i \in 1..n |-> weights[idxs[i]]])
                     out == call.ret.val[j]
                 IN  /\ RLeq(q, c[1]) => out = v[1]
                     /\ RLeq(c[n], q) => out = v[n]
                     /\ \A i \in 1..(n - 1) :
                          (RLeq(c[i], q) /\ RLeq(q, c[i + 1]))
                            => OnTheLine(out, q, c[i], v[i], c[i + 1], v[i + 1])
            /\ (weights = <<Rat(3, 10), Rat(7, 10)>> /\ q = Rat(1, 5))
                 => \A j \in 1..2 : \A i \in 1..n : RLeq(call.ret.val[j], curves[i][j])

C19_Witness ==
    /\ WeightedCall
    /\ call.args[1] = <<(<<Rat(1, 10), Rat(3, 10)>>), <<Rat(3, 25), Rat(33, 100)>>>>
    /\ call.args[2] = Rat(1, 5)
    /\ call.args[3] = Some(<<Rat(3, 10), Rat(7, 10)>>)
    /\ call.ret = Returned(<<Rat(1, 10), Rat(3, 10)>>)

C19_WitnessBetween ==
    /\ WeightedCall
    /\ call.args[1] = <<(<<Rat(3, 10), Rat(2, 5)>>), <<Rat(1, 10), Rat(1, 5)>>>>
    /\ call.args[2] = Rat(4, 5)
    /\ call.args[3] = Some(<<Rat(3, 10), Rat(7, 10)>>)
    /\ call.ret = Returned(<<Rat(1, 6), Rat(4, 15)>>)

\* the same imls, mean loss ratios, covs, id, imt and distribution tag
SameFunction(f, g) ==
    /\ f.imls = g.imls
    /\ f.mean_loss_ratios = g.mean_loss_ratios
    /\ f.covs = g.covs
    /\ f.id = g.id
    /\ f.imt = g.imt
    /\ f.distribution_name = g.distribution_name

(* C20: strictly_increasing is idempotent: for every valid function f,      *)
(* f.strictly_increasing().strictly_increasing() returns a function with    *)
(* the same imls, mean loss ratios, covs, id, imt and distribution tag as   *)
(* f.strictly_increasing().                                                 *)
C20_Idempotent ==
    (call.fn = "strictly_increasing" /\ Len(objs) = 2) =>
        /\ call.ret.ok
        /\ SameFunction(call.ret.val, objs[2])

C20_Witness ==
    /\ call.fn = "strictly_increasing"
    /\ Len(objs) = 2
    /\ objs[1].mean_loss_ratios = <<0, 1, 1>>
    /\ objs[2].mean_loss_ratios = <<0, 1>>
    /\ call.ret.ok
    /\ call.ret.val.imls = <<0, 1>>

(* C21: for every valid function and every steps value the loss ratios     *)
(* returned by mean_loss_ratios_with_steps include both 0.0 and 1.0.        *)
C21_ZeroAndOneIncluded ==
    call.fn = "mean_loss_ratios_with_steps" =>
        /\ Int2Rat(0) \in Range(call.ret.val)
        /\ Int2Rat(1) \in Range(call.ret.val)

\* 0.0 is always among them, and 1.0 is whenever no mean loss ratio is above 1
ZeroAndOneUpToOne ==
    call.fn = "mean_loss_ratios_with_steps" =>
        /\ Int2Rat(0) \in Range(call.ret.val)
        /\ (\A i \in DOMAIN call.args[1] : RLeq(call.args[1][i], Int2Rat(1)))
             => Int2Rat(1) \in Range(call.ret.val)

C21_Witness ==
    /\ call.fn = "mean_loss_ratios_with_steps"
    /\ call.args = <<(<<Rat(1, 2), Rat(3, 2)>>), 1>>
    /\ call.ret.val = <<Rat(0, 1), Rat(1, 2), Rat(3, 2)>>

\* what sample returns for the column alone
AloneLossRatio(pk) ==
    DiscreteDistribution_sample(PmfDistribution, call.args[1], <<pk>>, 0,
                                call.args[3]).val[1]

(* C22: DiscreteDistribution.sample with a fixed seed draws the loss ratio  *)
(* of each sample from that sample's probability column only: it is the     *)
(* same whether the column is sampled alone or among other columns, at any  *)
(* position; equal columns get equal loss ratios; repeating the call gives  *)
(* the same result.                                                         *)
C22_ColumnAlone ==
    call.fn = "DiscreteDistribution.sample" =>
        LET probs == call.args[2]
            ret == call.ret.val
        IN  /\ \A i \in DOMAIN probs : ret[i] = AloneLossRatio(probs[i])
            /\ \A i, j \in DOMAIN probs : probs[i] = probs[j] => ret[i] = ret[j]
            /\ \A k \in DOMAIN inv : inv[k] = inv[1]

C22_Witness ==
    /\ call.fn = "DiscreteDistribution.sample"
    /\ Len(inv) = 2
    /\ Len(call.args[2]) = 2
    /\ call.args[2][1] = call.args[2][2]
    /\ call.args[3][1] # call.args[3][2]
    /\ call.ret.val = <<2, 2>>

\* the LogNormal instances with epsilons set that are there before and
\* after the step
LogNormalInstances ==
    {r \in DOMAIN objs \cap DOMAIN objs' :
        /\ objs[r].distribution.kind = "LN"
        /\ objs[r].distribution.epsilons.some
        /\ objs'[r].distribution.kind = "LN"}

\* the sample call of this step on instance r returned
SampleReturned(r) ==
    r \in DOMAIN inv /\ inv[r].pc = "rows" /\ inv'[r].pc = "rows"
        /\ inv'[r].i = inv[r].i + 1

(* C23: on a LogNormalDistribution instance with epsilons set the cursor    *)
(* starts at 0, every successful sample call reads the epsilon row at the   *)
(* cursor and then advances the cursor by exactly 1 (the k-th call uses     *)
(* epsilon row k), and the cursor never decreases or resets.                *)
C23_CursorAdvances ==
    [][/\ \A r \in DOMAIN objs' \ DOMAIN objs :
            objs'[r].distribution.kind = "LN" => objs'[r].distribution.asset_idx = 0
       /\ \A r \in LogNormalInstances :
            LET d == objs[r].distribution
                after == objs'[r].distribution
            IN  /\ after.asset_idx >= d.asset_idx
                /\ after.epsilons = d.epsilons
                /\ SampleReturned(r) =>
                     /\ after.asset_idx = d.asset_idx + 1
                     /\ d.asset_idx = inv[r].i
                     /\ \A j \in DOMAIN inv'[r].out :
                          inv'[r].out[j].k = "ln" =>
                            inv'[r].out[j].e = d.epsilons.val[d.asset_idx + 1][j]
                /\ ~SampleReturned(r) => after.asset_idx = d.asset_idx]_vars

C23_Witness ==
    /\ 1 \in DOMAIN objs
    /\ objs[1].distribution.kind = "LN"
    /\ objs[1].distribution.asset_idx = 2
    /\ inv[1].i = 2
    /\ \E j \in DOMAIN inv[1].out :
         inv[1].out[j].k = "ln" /\ inv[1].out[j].e = inv[1].eps[2][j]

\* caller p, inside apply_to on a LogNormal distribution, gets a row back
\* from _apply in this step
LogNormalRowStep(p) ==
    /\ inv[p].fn = "apply_to" /\ inv[p].pc = "rows" /\ inv'[p].pc = "rows"
    /\ inv'[p].i = inv[p].i + 1
    /\ objs[p].distribution.kind = "LN"

(* C24: apply_to over N rows calls the distribution's sample exactly once   *)
(* per row, in the order of the rows, so that the losses of row i come from *)
(* epsilon row i; a row whose IMLs are all below the function's minimum     *)
(* samples nothing and still consumes its epsilon row; within a row the     *)
(* j-th ground-motion value is paired with the j-th epsilon of the row.     *)
C24_RowByRow ==
    [][\A p \in DOMAIN inv :
         LogNormalRowStep(p) =>
            LET f == objs[0]
                last == f.imls[Len(f.imls)]
                row == inv[p].i + 1
                gm == inv'[p].gm
                out == inv'[p].out
            IN  /\ objs[p].distribution.asset_idx = row - 1
                /\ objs'[p].distribution.asset_idx = row
                /\ row <= inv[p].n
                /\ DOMAIN out = DOMAIN gm
                /\ \A j \in DOMAIN gm :
                     out[j] = IF gm[j] < f.imls[1] THEN Num(0)
                              ELSE LossAt(f, IF gm[j] > last THEN last ELSE gm[j],
                                          inv[p].eps[row][j], 0)]_vars

C24_Witness ==
    \E p \in DOMAIN inv :
        /\ RowDone(p) /\ inv[p].i = 2
        /\ objs[p].distribution.kind = "LN"
        /\ \A j \in DOMAIN inv[p].gm : inv[p].gm[j] < objs[0].imls[1]
        /\ objs[p].distribution.asset_idx = 2

C24_WitnessPaired ==
    \E p \in DOMAIN inv :
        /\ RowDone(p) /\ inv[p].i = 2
        /\ objs[p].distribution.kind = "LN"
        /\ inv[p].gm[1] < objs[0].imls[1]
        /\ inv[p].out[2].k = "ln"
        /\ inv[p].out[2].e = inv[p].eps[2][2]

\* the probability is strictly inside the curve and is no PoE of it
StrictlyInside(poes, probability) ==
    /\ RLess(poes[Len(poes)], probability)
    /\ RLess(probability, poes[1])
    /\ \A i \in DOMAIN poes : poes[i] # probability

(* C25: for a curve with non-increasing poes and a probability strictly     *)
(* between poes[-1] and poes[0] that equals no PoE, conditional_loss_ratio  *)
(* returns the linear interpolation between the two adjacent points with    *)
(* poes[i] > probability > poes[i+1], for every i including the last        *)
(* interval; the result lies between loss_ratios[i] and loss_ratios[i+1]    *)
(* and no division by zero occurs.                                          *)
C25_Interpolation ==
    (call.fn = "conditional_loss_ratio"
        /\ StrictlyInside(call.args[2], call.args[3])) =>
        LET loss_ratios == call.args[1]
            poes == call.args[2]
            probability == call.args[3]
            i == CHOOSE k \in 1..(Len(poes) - 1) :
                    RLess(probability, poes[k]) /\ RLess(poes[k + 1], probability)
        IN  /\ call.ret.ok
            /\ call.ret.val \notin {NaN}
            /\ OnTheLine(call.ret.val, probability, poes[i], loss_ratios[i],
                         poes[i + 1], loss_ratios[i + 1])
            /\ RLeq(loss_ratios[i], call.ret.val)
            /\ RLeq(call.ret.val, loss_ratios[i + 1])

\* the probability falls in the last interval of a curve of three points
C25_Witness ==
    /\ call.fn = "conditional_loss_ratio"
    /\ Len(call.args[2]) = 3
    /\ StrictlyInside(call.args[2], call.args[3])
    /\ RLess(call.args[3], call.args[2][2])
    /\ call.ret.ok
    /\ RLess(call.args[1][2], call.ret.val)
    /\ RLess(call.ret.val, call.args[1][3])

\* the probability falls in the first interval of a curve of three points
C25_WitnessFirst ==
    /\ call.fn = "conditional_loss_ratio"
    /\ Len(call.args[2]) = 3
    /\ StrictlyInside(call.args[2], call.args[3])
    /\ RLess(call.args[2][2], call.args[3])
    /\ call.ret.ok
    /\ RLess(call.args[1][1], call.ret.val)
    /\ RLess(call.ret.val, call.args[1][2])

(* C26: for every valid function, strictly_increasing() returns a function *)
(* that is strictly increasing: each mean loss ratio of the result is       *)
(* greater than the one before it.                                          *)
C26_StrictlyIncreasing ==
    (call.fn = "strictly_increasing" /\ call.ret.ok) =>
        \A i \in 1..(Len(call.ret.val.mean_loss_ratios) - 1) :
            call.ret.val.mean_loss_ratios[i] < call.ret.val.mean_loss_ratios[i + 1]

\* the result is strictly increasing when the mean loss ratios of the
\* receiver do not decrease, and has no two equal neighbours in any case
IncreasingWhenNotDecreasing ==
    (call.fn = "strictly_increasing" /\ call.ret.ok) =>
        LET self == objs[Len(objs)]
            mlrs == call.ret.val.mean_loss_ratios
        IN  /\ \A i \in 1..(Len(mlrs) - 1) : mlrs[i] # mlrs[i + 1]
            /\ (\A i \in 1..(Len(self.mean_loss_ratios) - 1) :
                   self.mean_loss_ratios[i] <= self.mean_loss_ratios[i + 1])
                 => \A i \in 1..(Len(mlrs) - 1) : mlrs[i] < mlrs[i + 1]

C26_Witness ==
    /\ call.fn = "strictly_increasing" /\ call.ret.ok
    /\ Len(objs) = 1
    /\ objs[1].mean_loss_ratios = <<1, 0>>
    /\ call.ret.val.mean_loss_ratios = <<1, 0>>


-----------------------------------------------------------------------------
(* classical *)

\* edge j of the L + 1 edges around the L control points of g
EdgeOf(g, j) ==
    LET imls == Rats(g.imls)
        L == Len(imls)
        half == Rat(1, 2)
        below == RSub(imls[1], RMul(RSub(imls[2], imls[1]), half))
    IN  IF j = 1 THEN (IF RLess(below, Int2Rat(0)) THEN Int2Rat(0) ELSE below)
        ELSE IF j = L + 1
        THEN RAdd(imls[L], RMul(RSub(imls[L], imls[L - 1]), half))
        ELSE RMul(RAdd(imls[j - 1], imls[j]), half)

\* the hazard PoE at x, x brought into the range of the hazard imls first
HazardPoeAt(hazard_imls, hazard_poes, x) ==
    LET lo == hazard_imls[1]
        hi == hazard_imls[Len(hazard_imls)]
        at == IF RLess(x, lo) THEN lo ELSE IF RLess(hi, x) THEN hi ELSE x
    IN  interp1d_floats(hazard_imls, hazard_poes, at)

\* the probability of occurrence of column col
PoOf(g, hazard_imls, hazard_poes, col) ==
    RSub(HazardPoeAt(hazard_imls, hazard_poes, EdgeOf(g, col)),
         HazardPoeAt(hazard_imls, hazard_poes, EdgeOf(g, col + 1)))

\* a call of classical on a function whose strictly increasing form g has at
\* least two control points
ClassicalCall ==
    /\ call.fn = "classical"
    /\ call.args[5].ok
    /\ Len(call.args[5].val.imls) >= 2

\* C27: classical on g of L control points returns; mean_imls yields L + 1
\* points, the differences of the hazard PoEs at them L probabilities of
\* occurrence, the LREM has one row for each bin and L columns, and the PoE
\* of every bin is the sum over all L columns of LREM[bin][col] * po[col],
\* no column left out or unwritten
C27_EveryColumnWeighted ==
    ClassicalCall =>
        LET g == call.args[5].val
            L == Len(g.imls)
            hazard_imls == call.args[2]
            hazard_poes == call.args[3]
            matrix == loss_ratio_exceedance_matrix(g, call.args[4])
            loss_ratios == matrix[1]
            lrem == matrix[2]
        IN  /\ call.ret.ok
            /\ Len(mean_imls(g)) = L + 1
            /\ \A j \in 1..(L + 1) : mean_imls(g)[j] = EdgeOf(g, j)
            /\ DOMAIN lrem = DOMAIN loss_ratios
            /\ \A bin \in DOMAIN lrem : DOMAIN lrem[bin] = 1..L
            /\ call.ret.val[1] = loss_ratios
            /\ DOMAIN call.ret.val[2] = DOMAIN loss_ratios
            /\ \A bin \in DOMAIN loss_ratios :
                 call.ret.val[2][bin] =
                    RowSum([col \in 1..L |->
                              Times(survival(g.distribution, loss_ratios[bin],
                                             g.mean_loss_ratios[col], g.stddevs[col]),
                                    PoOf(g, hazard_imls, hazard_poes, col))])

\* a call on three control points under a hazard curve of three points, a
\* bin of which is exceeded with a known probability above zero
C27_Witness ==
    /\ ClassicalCall
    /\ call.ret.ok
    /\ Len(call.args[5].val.imls) = 3
    /\ Len(call.args[2]) = 3
    /\ \E bin \in DOMAIN call.ret.val[2] :
         /\ call.ret.val[2][bin].k = "float"
         /\ RLess(Int2Rat(0), call.ret.val[2][bin].x)
         /\ RLess(call.ret.val[2][bin].x, Int2Rat(1))

\* a call on a function with a plateau, whose strictly increasing form has
\* fewer control points, every term of a bin a survival value times its po
C27_WitnessTerms ==
    /\ ClassicalCall
    /\ call.ret.ok
    /\ Len(call.args[5].val.imls) < Len(call.args[1].imls)
    /\ \E bin \in DOMAIN call.ret.val[2] :
         /\ call.ret.val[2][bin].k = "sum"
         /\ Len(call.ret.val[2][bin].terms) = Len(call.args[5].val.imls)

-----------------------------------------------------------------------------
(* CurveBuilder.get_counts *)

\* the sum of entry c of the count vectors of asset a over the count_dicts
RECURSIVE CountsOf(_, _, _)
CountsOf(count_dicts, a, c) ==
    IF count_dicts = <<>> THEN 0
    ELSE LET n == Len(count_dicts)
             here == IF a \in DOMAIN count_dicts[n] THEN count_dicts[n][a][c] ELSE 0
         IN  CountsOf(SubSeq(count_dicts, 1, n - 1), a, c) + here

\* the count_dicts in every order
Reordered(count_dicts) ==
    {[i \in DOMAIN count_dicts |-> count_dicts[p[i]]] :
        p \in {q \in [DOMAIN count_dicts -> DOMAIN count_dicts] :
                 \A i, j \in DOMAIN count_dicts : q[i] = q[j] => i = j}}

\* the call returned an N x C matrix of the sums, the same in every order
SumsInEveryOrder ==
    LET self == call.args[1]
        N == call.args[2]
        count_dicts == call.args[3]
    IN  /\ call.ret.ok
        /\ DOMAIN call.ret.val = 0..(N - 1)
        /\ \A a \in 0..(N - 1) :
             call.ret.val[a] =
                [c \in 1..self.curve_resolution |-> CountsOf(count_dicts, a, c)]
        /\ \A other \in Reordered(count_dicts) :
             get_counts(self, N, other) = call.ret

\* C28: get_counts(N, count_dicts) returns an N x C matrix whose row a is the
\* elementwise sum of the count vectors of asset a over all the count_dicts,
\* zeros for an asset in none of them, whatever the order of the count_dicts
C28_SumOfCounts ==
    call.fn = "get_counts" => SumsInEveryOrder

\* the same when every one of the count_dicts has a key
SumOfCountsOfDictsWithKeys ==
    (/\ call.fn = "get_counts"
     /\ \A i \in DOMAIN call.args[3] : DOMAIN call.args[3][i] # {})
        => SumsInEveryOrder

\* a call with a dict without keys among the count_dicts does not return
C28_Witness ==
    /\ call.fn = "get_counts"
    /\ \E i \in DOMAIN call.args[3] : DOMAIN call.args[3][i] = {}
    /\ ~call.ret.ok

\* asset 1 in two of the count_dicts, asset 0 in one, asset 2 in none
C28_WitnessSums ==
    /\ call.fn = "get_counts"
    /\ call.ret.ok
    /\ call.args[2] = 3
    /\ call.args[3] = <<(0 :> <<1, 0>>) @@ (1 :> <<1, 1>>), 1 :> <<0, 1>>>>
    /\ call.ret.val = (0 :> <<1, 0>>) @@ (1 :> <<1, 2>>) @@ (2 :> <<0, 0>>)

-----------------------------------------------------------------------------
(* conditional_loss_ratio: the loss ratio as a function of the probability *)

\* C29: on a curve of non-decreasing non-negative loss ratios and
\* non-increasing poes, conditional_loss_ratio(loss_ratios, poes, p) lies in
\* [0, loss_ratios[-1]] and is at least conditional_loss_ratio(loss_ratios,
\* poes, p2) for every probability p2 above p, whichever of the four cases
\* p and p2 fall in
C29_NonIncreasingInProbability ==
    call.fn = "conditional_loss_ratio" =>
        LET loss_ratios == call.args[1]
            poes == call.args[2]
            p1 == call.args[3]
        IN  /\ call.ret.ok
            /\ call.ret.val \notin {NaN}
            /\ RLeq(Int2Rat(0), call.ret.val)
            /\ RLeq(call.ret.val, loss_ratios[Len(loss_ratios)])
            /\ \A p2 \in Probabilities :
                 RLess(p1, p2) =>
                    LET above == conditional_loss_ratio(loss_ratios, poes, p2)
                    IN  /\ above.ok
                        /\ above.val \notin {NaN}
                        /\ RLeq(above.val, call.ret.val)

\* the case of a probability p2 above p1 and a curve of poes
CaseOf(poes, p) ==
    IF RLess(poes[1], p) THEN 4
    ELSE IF RLess(p, poes[Len(poes)]) THEN 3
    ELSE IF \E i \in DOMAIN poes : poes[i] = p THEN 1 ELSE 2

\* an interpolated loss ratio strictly between the one of a PoE of the curve
\* above the probability and the largest loss ratio below it, on a curve
\* with two points of the same PoE
C29_Witness ==
    /\ call.fn = "conditional_loss_ratio"
    /\ call.ret.ok
    /\ Len(call.args[2]) = 3
    /\ call.args[2][2] = call.args[2][3]
    /\ CaseOf(call.args[2], call.args[3]) = 2
    /\ \E p2, p3, p4 \in Probabilities :
         /\ CaseOf(call.args[2], p2) = 1
         /\ CaseOf(call.args[2], p3) = 3
         /\ CaseOf(call.args[2], p4) = 4
         /\ RLess(p3, p2) /\ RLess(p2, call.args[3]) /\ RLess(call.args[3], p4)
         /\ RLess(call.ret.val,
                  conditional_loss_ratio(call.args[1], call.args[2], p2).val)
         /\ RLess(conditional_loss_ratio(call.args[1], call.args[2], p4).val,
                  call.ret.val)

-----------------------------------------------------------------------------
(* _apply: the standard deviation handed to sample *)

\* a Beta variate of a returned row: its column j was inside the support,
\* and the variate records the mean and the stddev that sample was handed
BetaSampled(p, j) ==
    /\ RowDone(p)
    /\ objs[0].distribution.kind = "BT"
    /\ j \in DOMAIN inv[p].out
    /\ inv[p].out[j].k = "beta"

\* the IML of column j after the clipping to the largest IML of f
ClippedIml(f, gmv) ==
    IF gmv > f.imls[Len(f.imls)] THEN f.imls[Len(f.imls)] ELSE gmv

\* cov * mean loss ratio at x as a float: the cov interpolated is a
\* numerator over Den of steps of 0.1, the mean a numerator over Den
CovTimesMean(f, x) ==
    RMul(Rat(interp1d(f.imls, f.covs, x), 10 * Den),
         Rat(interp1d(f.imls, f.mean_loss_ratios, x), Den))

\* cov * IML at x as a float, the IML in steps of 0.1
CovTimesIml(f, x) ==
    RMul(Rat(interp1d(f.imls, f.covs, x), 10 * Den), Rat(x, 10))

\* the stddev a variate records, as a float
StddevOf(variate) == Rat(variate.c, 100 * Den)

\* C30: the standard deviation _apply hands to sample for an IML inside the
\* support is the interpolated coefficient of variation times the
\* interpolated mean loss ratio at that IML, the definition of the stored
\* stddevs that the survival function is given
C30_StddevIsCovTimesMean ==
    \A p \in DOMAIN inv :
        \A j \in DOMAIN inv[p].out :
            BetaSampled(p, j) =>
                StddevOf(inv[p].out[j])
                    = CovTimesMean(objs[0], ClippedIml(objs[0], inv[p].gm[j]))

\* what is handed over is the coefficient of variation times the IML
StddevIsCovTimesIml ==
    \A p \in DOMAIN inv :
        \A j \in DOMAIN inv[p].out :
            BetaSampled(p, j) =>
                StddevOf(inv[p].out[j])
                    = CovTimesIml(objs[0], ClippedIml(objs[0], inv[p].gm[j]))

\* a Beta variate drawn with a stddev that is not cov * mean loss ratio
C30_Witness ==
    \E p \in DOMAIN inv :
        \E j \in DOMAIN inv[p].out :
            /\ BetaSampled(p, j)
            /\ StddevOf(inv[p].out[j])
                 # CovTimesMean(objs[0], ClippedIml(objs[0], inv[p].gm[j]))
=============================================================================
